---- MODULE Spec2Model ----
(***************************************************************************)
(* A model of the KML reference analyzer of TID_GNSS                       *)
(* (src/src/Cleaning_Formatter/KML_protocol_analyzer.py): loading a KML    *)
(* into a GeoDataFrame, splitting it by protocol, deriving the per-protocol*)
(* artifacts and joining track points against the references.              *)
(*                                                                         *)
(* Text is modelled character by character: a TLA+ string names a text and *)
(* Chars gives its characters, so matching is a real substring search.     *)
(* Geometries live on an integer lattice: a Point is one lattice point, a  *)
(* LineString a path of unit, axis-parallel steps between lattice points.  *)
(* On that lattice intersection, containment and distance are exact.       *)
(***************************************************************************)
EXTENDS Integers, Sequences, FiniteSets, TLC

\* ------------------------------------------------------------------ bounds

\* features (placemarks) of a KML file
MaxFeatures == 3
\* features of a KML file in the join specification
MaxJoinFeatures == 2
\* track points handed to attach_refs_to_gdf
\* The most placemarks of a KML file whose names are matched.
MaxMatchFeatures == 3
\* The longitudes and latitudes, in degrees, the UTM zone is computed for.
MaxLon == 180
MaxLat == 45
\* The most placemarks of a KML file of trails and start lines.
MaxCrossFeatures == 3
\* The most placemarks of a KML file of protocol 2 lines.
MaxP2Features == 4
MaxPoints == 2
\* The GPX files of one load, and the latest time of a filter range.
MaxGpxFiles == 2
MaxTime == 2
\* The most reference rows and the most points of a P2 statistics run.
MaxRefs == 2
MaxStatPoints == 2

\* ------------------------------------------------------------------- text

\* The value of an absent field (Python None / a missing column).
Absent == "<absent>"

\* The characters of the texts the model uses.
Chars(s) ==
    CASE s = "P1 Point" -> <<"P", "1", " ", "P", "o", "i", "n", "t">>
      [] s = "p1 base" -> <<"p", "1", " ", "b", "a", "s", "e">>
      [] s = "P2 OuterLine" -> <<"P", "2", " ", "O", "u", "t", "e", "r", "L", "i", "n", "e">>
      [] s = "P2 InnerLine" -> <<"P", "2", " ", "I", "n", "n", "e", "r", "L", "i", "n", "e">>
      [] s = "P2 Inner Line" -> <<"P", "2", " ", "I", "n", "n", "e", "r", " ", "L", "i", "n", "e">>
      [] s = "P2 Start Line" -> <<"P", "2", " ", "S", "t", "a", "r", "t", " ", "L", "i", "n", "e">>
      [] s = "Start Line" -> <<"S", "t", "a", "r", "t", " ", "L", "i", "n", "e">>
      [] s = "P3 Trail" -> <<"P", "3", " ", "T", "r", "a", "i", "l">>
      [] s = "P3 Crossing" -> <<"P", "3", " ", "C", "r", "o", "s", "s", "i", "n", "g">>
      [] s = "Trail" -> <<"T", "r", "a", "i", "l">>
      [] s = "Protocolo 2" -> <<"P", "r", "o", "t", "o", "c", "o", "l", "o", " ", "2">>
      [] s = "Ruta 2" -> <<"R", "u", "t", "a", " ", "2">>
      [] s = "Meta" -> <<"M", "e", "t", "a">>
      [] s = "Protocol One" -> <<"P", "r", "o", "t", "o", "c", "o", "l", " ", "O", "n", "e">>
      [] s = "One" -> <<"O", "n", "e">>
      [] s = "P2 Mark" -> <<"P", "2", " ", "M", "a", "r", "k">>
      [] s = "None" -> <<"N", "o", "n", "e">>
      [] s = "" -> <<>>
      [] s = "Zona Protocolo 1" -> <<"Z", "o", "n", "a", " ", "P", "r", "o", "t", "o", "c", "o", "l", "o", " ", "1">>
      [] s = "P1" -> <<"P", "1">>
      [] s = "P2 Outer" -> <<"P", "2", " ", "O", "u", "t", "e", "r">>
      [] s = "OuterLine" -> <<"O", "u", "t", "e", "r", "L", "i", "n", "e">>
      [] s = "P2 Inner" -> <<"P", "2", " ", "I", "n", "n", "e", "r">>
      [] s = "Inner Line" -> <<"I", "n", "n", "e", "r", " ", "L", "i", "n", "e">>
      [] s = "P2 Start" -> <<"P", "2", " ", "S", "t", "a", "r", "t">>
      [] s = "Protocolo 1" -> <<"P", "r", "o", "t", "o", "c", "o", "l", "o", " ", "1">>
      [] s = "Protocolo 3" -> <<"P", "r", "o", "t", "o", "c", "o", "l", "o", " ", "3">>
      [] s = "Protocolo " -> <<"P", "r", "o", "t", "o", "c", "o", "l", "o", " ">>
      [] s = "Protocolo_" -> <<"P", "r", "o", "t", "o", "c", "o", "l", "o", "_">>
      [] s = "Protocol " -> <<"P", "r", "o", "t", "o", "c", "o", "l", " ">>
      [] s = "P" -> <<"P">>
      [] s = "p" -> <<"p">>
      [] s = "p1" -> <<"p", "1">>
      [] s = "p2" -> <<"p", "2">>
      [] s = "p3" -> <<"p", "3">>
      [] s = "outer" -> <<"o", "u", "t", "e", "r">>
      [] s = "inner" -> <<"i", "n", "n", "e", "r">>
      [] s = "start_line" -> <<"s", "t", "a", "r", "t", "_", "l", "i", "n", "e">>

UpperCase == <<"A", "B", "C", "D", "E", "F", "G", "H", "I", "J", "K", "L", "M",
               "N", "O", "P", "Q", "R", "S", "T", "U", "V", "W", "X", "Y", "Z">>
LowerCase == <<"a", "b", "c", "d", "e", "f", "g", "h", "i", "j", "k", "l", "m",
               "n", "o", "p", "q", "r", "s", "t", "u", "v", "w", "x", "y", "z">>

\* One character, case folded (what case=False compares).
Lower(c) ==
    IF \E i \in 1..Len(UpperCase) : UpperCase[i] = c
    THEN LowerCase[CHOOSE i \in 1..Len(UpperCase) : UpperCase[i] = c]
    ELSE c

\* Series.astype(str): an absent value becomes the text "None".
AsStr(v) == IF v = Absent THEN Chars("None") ELSE Chars(v)

\* pat occurs in text; the case of the letters is ignored unless case.
Search(text, pat, case) ==
    \E off \in 0..(Len(text) - Len(pat)) :
        \A j \in 1..Len(pat) :
            IF case THEN text[off + j] = pat[j]
                    ELSE Lower(text[off + j]) = Lower(pat[j])

\* The texts the program searches in (names and descriptions, an absent
\* name read as "None") and the texts it searches for (the candidate
\* patterns of split_by_protocol, its loose digit pattern and the role names
\* of _build_protocol_artifacts).
SearchedTexts ==
    {Chars(x) : x \in {"P1 Point", "p1 base", "P2 OuterLine", "P2 Inner Line",
                       "P2 Start Line", "Start Line", "P3 Trail", "Trail", "Protocolo 2",
                       "Ruta 2", "Meta", "None", "", "Zona Protocolo 1", "P2 Mark",
                       "Protocol One"}}
Digits == {"1", "2", "3"}
SearchPatterns ==
    {Chars(x) \o <<n>> : x \in {"Protocolo ", "Protocolo_", "P", "Protocol ", "p", ""},
                         n \in Digits}
    \cup {Chars(x) : x \in {"One", "Protocolo 1", "P1 Point", "P1", "P2 Outer", "OuterLine", "P2 Inner",
                            "Inner Line", "P2 Start", "Start Line", "P3 Trail", "Trail"}}

\* Search, tabulated once over those texts.
SearchTable ==
    [t \in SearchedTexts |-> [p \in SearchPatterns |-> [c \in BOOLEAN |-> Search(t, p, c)]]]

\* Series.str.contains(pat, case=...): pat occurs in text (the patterns of
\* this program hold no regular-expression metacharacter).
StrContains(text, pat, case) == SearchTable[text][pat][case]

\* --------------------------------------------------------------- geometry

\* A geometry is [type, coords, geoms]: coords for Point and LineString,
\* geoms (the components) for the Multi* and collection types.
Pt(x, y) == [type |-> "Point", coords |-> << <<x, y>> >>, geoms |-> <<>>]
Line(cs) == [type |-> "LineString", coords |-> cs, geoms |-> <<>>]
Multi(t, gs) == [type |-> t, coords |-> <<>>, geoms |-> gs]

\* No geometry at all (Python None).
NoGeom == [type |-> "None", coords |-> <<>>, geoms |-> <<>>]

\* shapely is_empty
IsEmpty(g) == Len(g.coords) = 0 /\ Len(g.geoms) = 0

\* The truth value Python's `or` sees: None and an empty geometry are false.
Truthy(g) == g # NoGeom /\ ~IsEmpty(g)

\* `a or b` on geometries
PyOr(a, b) == IF Truthy(a) THEN a ELSE b

Vertices(g) == {g.coords[i] : i \in 1..Len(g.coords)}
Edges(g) == {{g.coords[i], g.coords[i + 1]} : i \in 1..(Len(g.coords) - 1)}

\* The elements of a set of integers in increasing order.
RECURSIVE SortedSeq(_)
SortedSeq(S) ==
    IF S = {} THEN <<>>
    ELSE LET m == CHOOSE x \in S : \A y \in S : x <= y
         IN <<m>> \o SortedSeq(S \ {m})

\* The maximal runs of consecutive edges of a that are in sharedE, as
\* LineStrings, in the order a visits them.
SharedRuns(a, sharedE) ==
    LET n == Len(a.coords)
        Shared(i) == i \in 1..(n - 1) /\ {a.coords[i], a.coords[i + 1]} \in sharedE
        EndOf(s) == CHOOSE e \in s..(n - 1) :
                        (\A k \in s..e : Shared(k)) /\ ~Shared(e + 1)
        RunsFrom(starts) == [k \in 1..Len(starts) |->
                                Line(SubSeq(a.coords, starts[k], EndOf(starts[k]) + 1))]
    IN RunsFrom(SortedSeq({i \in 1..(n - 1) : Shared(i) /\ ~Shared(i - 1)}))

\* The vertices of a that are vertices of b and on none of the edges
\* covering onEdge, as Points, each once, in the order a visits them.
IsolatedPoints(a, b, onEdge) ==
    LET PointsAt(at) == [k \in 1..Len(at) |-> Pt(a.coords[at[k]][1], a.coords[at[k]][2])]
    IN PointsAt(SortedSeq({i \in 1..Len(a.coords) :
                              /\ a.coords[i] \in Vertices(b)
                              /\ a.coords[i] \notin onEdge
                              /\ \A k \in 1..(i - 1) : a.coords[k] # a.coords[i]}))

\* The geometry made of the components runs and pts.
Assemble(runs, pts) ==
    IF Len(runs) = 0 /\ Len(pts) = 0 THEN Multi("GeometryCollection", <<>>)
    ELSE IF Len(runs) = 0 /\ Len(pts) = 1 THEN pts[1]
    ELSE IF Len(runs) = 0 THEN Multi("MultiPoint", pts)
    ELSE IF Len(runs) = 1 /\ Len(pts) = 0 THEN runs[1]
    ELSE IF Len(pts) = 0 THEN Multi("MultiLineString", runs)
    ELSE Multi("GeometryCollection", runs \o pts)

\* shapely a.intersection(b) for Points and lattice LineStrings. The common
\* part is made of the common unit edges, merged into maximal runs along a,
\* and of the common lattice points on no common edge. Components come lines
\* first, then points, each in the order a visits them.
Intersection(a, b) ==
    Assemble(SharedRuns(a, Edges(a) \cap Edges(b)),
             IsolatedPoints(a, b, UNION (Edges(a) \cap Edges(b))))

RECURSIVE SumSeq(_)
SumSeq(s) == IF Len(s) = 0 THEN 0 ELSE Head(s) + SumSeq(Tail(s))

\* shapely centroid of a Point or of a LineString of unit edges: the mean of
\* the edge midpoints.
Centroid(g) ==
    IF g.type = "Point" THEN g
    ELSE LET n == Len(g.coords) - 1
             sx == SumSeq([i \in 1..n |-> g.coords[i][1] + g.coords[i + 1][1]])
             sy == SumSeq([i \in 1..n |-> g.coords[i][2] + g.coords[i + 1][2]])
         IN Pt(sx \div (2 * n), sy \div (2 * n))

\* Whether the division in Centroid is exact, so that the model's centroid
\* is the geometry's.
CentroidIsExact(g) ==
    \/ g.type = "Point"
    \/ LET n == Len(g.coords) - 1
           sx == SumSeq([i \in 1..n |-> g.coords[i][1] + g.coords[i + 1][1]])
           sy == SumSeq([i \in 1..n |-> g.coords[i][2] + g.coords[i + 1][2]])
       IN sx % (2 * n) = 0 /\ sy % (2 * n) = 0

\* Squared Euclidean distance between lattice points.
Dist2(p, q) == (p[1] - q[1]) * (p[1] - q[1]) + (p[2] - q[2]) * (p[2] - q[2])

Min(S) == CHOOSE x \in S : \A y \in S : x <= y

\* Squared distance from lattice point p to geometry g. For a path of unit
\* steps the nearest point of the path to a lattice point is a vertex.
GeomDist2(p, g) == Min({Dist2(p, v) : v \in Vertices(g)})

\* shapely predicate "within" for a point: the point lies in the interior
\* of g, the end points of an open line being its boundary.
PointWithin(p, g) ==
    IF g.type = "Point" THEN p = g.coords[1]
    ELSE /\ p \in Vertices(g)
         /\ \/ g.coords[1] = g.coords[Len(g.coords)]
            \/ p \notin {g.coords[1], g.coords[Len(g.coords)]}

\* ----------------------------------------------------------------- frames

\* A GeoDataFrame is [crs, cols, rows]; a row is [idx, name, desc, kind,
\* geometry], a field of a column the frame lacks being Absent.
Row(i, nm, d, k, g) == [idx |-> i, name |-> nm, desc |-> d, kind |-> k, geometry |-> g]

\* No frame at all (self.gdf = None).
NoFrame == [crs |-> Absent, cols |-> {}, rows |-> <<>>]

\* DataFrame.empty
Empty(df) == Len(df.rows) = 0

\* The CRS a KML file is read in.
WGS84 == "EPSG:4326"

\* gpd.GeoDataFrame(columns=["name", "kind", "geometry"], geometry="geometry", crs=crs)
EmptyArtifacts(crs) == [crs |-> crs, cols |-> {"name", "kind", "geometry"}, rows |-> <<>>]

\* gpd.GeoDataFrame(rows, crs=crs) for a list of {name, kind, geometry}
\* dictionaries: the rows get the positions 0, 1, ... as index.
ArtifactFrame(rs, crs) ==
    [crs |-> crs, cols |-> {"name", "kind", "geometry"},
     rows |-> [i \in 1..Len(rs) |-> Row(i - 1, rs[i].name, Absent, rs[i].kind, rs[i].geometry)]]

RECURSIVE SelectSeq2(_, _, _)
\* the elements of s whose position the mask marks, in order
SelectSeq2(s, mask, i) ==
    IF i > Len(s) THEN <<>>
    ELSE (IF mask[i] THEN <<s[i]>> ELSE <<>>) \o SelectSeq2(s, mask, i + 1)

\* the rows of s, each content once: a row equal in name, description and
\* geometry to an earlier one is left out
RECURSIVE DistinctContent(_, _)
DistinctContent(s, i) ==
    IF i > Len(s) THEN <<>>
    ELSE (IF \E j \in 1..(i - 1) : /\ s[j].name = s[i].name
                                   /\ s[j].desc = s[i].desc
                                   /\ s[j].geometry = s[i].geometry
          THEN <<>> ELSE <<s[i]>>) \o DistinctContent(s, i + 1)

\* Loc that keeps one row of each content (mutant).
Loc_ByContent(df, mask) ==
    [df EXCEPT !.rows = DistinctContent(SelectSeq2(df.rows, mask, 1), 1)]

\* df.loc[mask].copy(): the marked rows, with their index, columns and CRS
Loc(df, mask) == [df EXCEPT !.rows = SelectSeq2(df.rows, mask, 1)]

\* ------------------------------------------------------------- KML files

\* The placemarks a KML file of the model is made of.
StartS == Line(<< <<2, 0>>, <<2, 1>>, <<2, 2>>, <<2, 3>>, <<2, 4>> >>)
Catalogue ==
    { [name |-> "P1 Point", desc |-> Absent, geometry |-> Pt(0, 0)],
      [name |-> "p1 base", desc |-> Absent, geometry |-> Pt(2, 0)],
      [name |-> "P2 OuterLine", desc |-> Absent,
       geometry |-> Line(<< <<0, 2>>, <<0, 3>>, <<0, 4>> >>)],
      [name |-> "P2 Inner Line", desc |-> Absent,
       geometry |-> Line(<< <<1, 2>>, <<1, 3>> >>)],
      [name |-> "P2 Start Line", desc |-> Absent, geometry |-> StartS],
      [name |-> "Start Line", desc |-> Absent,
       geometry |-> Line(<< <<3, 0>>, <<3, 1>> >>)],
      \* crosses the P2 start line in one point
      [name |-> "P3 Trail", desc |-> Absent,
       geometry |-> Line(<< <<1, 1>>, <<2, 1>>, <<3, 1>>, <<4, 1>> >>)],
      \* crosses it in two points
      [name |-> "Trail", desc |-> Absent,
       geometry |-> Line(<< <<1, 3>>, <<2, 3>>, <<3, 3>>, <<3, 4>>, <<2, 4>>, <<1, 4>> >>)],
      \* runs along it
      [name |-> "P3 Trail", desc |-> Absent,
       geometry |-> Line(<< <<2, 1>>, <<2, 2>>, <<2, 3>>, <<3, 3>> >>)],
      \* runs along it, leaves it and crosses it again
      [name |-> "Trail", desc |-> Absent,
       geometry |-> Line(<< <<2, 0>>, <<2, 1>>, <<3, 1>>, <<3, 2>>, <<2, 2>>, <<1, 2>> >>)],
      [name |-> "Protocolo 2", desc |-> Absent,
       geometry |-> Line(<< <<4, 2>>, <<4, 3>> >>)],
      [name |-> "Ruta 2", desc |-> Absent,
       geometry |-> Line(<< <<0, 0>>, <<1, 0>> >>)],
      [name |-> "Meta", desc |-> "Zona Protocolo 1", geometry |-> Pt(4, 4)] }

\* The sequences over S of length at most n.
SeqUpTo(S, n) == UNION {[1..k -> S] : k \in 0..n}

\* The KML files: the placemarks in file order.
Files == SeqUpTo(Catalogue, MaxFeatures)

\* gpd.read_file(path, driver="KML") followed by the renaming of load: the
\* frame has a Description column when a placemark carries a description,
\* the others then holding the empty text.
ReadFile(file) ==
    LET described == \E i \in 1..Len(file) : file[i].desc # Absent
    IN [crs |-> WGS84,
        cols |-> {"name", "geometry"} \cup (IF described THEN {"Description"} ELSE {}),
        rows |-> [i \in 1..Len(file) |->
                    Row(i - 1, file[i].name,
                        IF described /\ file[i].desc = Absent THEN "" ELSE file[i].desc,
                        Absent, file[i].geometry)]]

\* ------------------------------------------------------ split_by_protocol

\* The protocol keys split_by_protocol uses when it is given no mapping.
DefaultKeys == <<"p1", "p2", "p3">>

\* A dictionary is a function on its keys; this is {}.
EmptyMap == [k \in {} |-> NoFrame]

\* Put that stores no empty frame (mutant).
Put_NonEmpty(d, k, v) ==
    IF Len(v.rows) = 0 THEN d
    ELSE [x \in DOMAIN d \cup {k} |-> IF x = k THEN v ELSE d[x]]

\* d[k] = v
Put(d, k, v) == [x \in DOMAIN d \cup {k} |-> IF x = k THEN v ELSE d[x]]

\* d.setdefault(k, v): an entry that exists is kept
SetDefault(d, k, v) == IF k \in DOMAIN d THEN d ELSE Put(d, k, v)

\* s[-1]
Last(s) == s[Len(s)]

\* k[-1]
LastChar(k) == Last(Chars(k))

\* the candidate patterns generated for protocol digit n
DefaultPatterns(n) ==
    << Chars("Protocolo ") \o <<n>>, Chars("Protocolo_") \o <<n>>, Chars("P") \o <<n>>,
       Chars("Protocol ") \o <<n>>, Chars("p") \o <<n>> >>

\* _match_patterns: the mask of the rows one of whose name or Description
\* holds one of the patterns, case ignored
MatchPatterns(df, patterns) ==
    IF Empty(df) THEN <<>>
    ELSE [i \in 1..Len(df.rows) |->
            \E j \in 1..Len(patterns) :
                \/ StrContains(AsStr(df.rows[i].name), patterns[j], FALSE)
                \/ /\ "Description" \in df.cols
                   /\ StrContains(AsStr(df.rows[i].desc), patterns[j], FALSE)]

\* The looser match of split_by_protocol: the rows whose name or Description
\* holds the digit n. n is the local variable of the loop: when no iteration
\* has assigned it (n = Absent) reading it raises NameError, which the
\* handler turns into the empty selection gdf.loc[[]].
LooseSubset(df, n) ==
    IF n = Absent
    THEN Loc(df, [i \in 1..Len(df.rows) |-> FALSE])
    ELSE Loc(df, [i \in 1..Len(df.rows) |->
            \/ StrContains(AsStr(df.rows[i].name), <<n>>, TRUE)
            \/ StrContains(IF "Description" \in df.cols THEN AsStr(df.rows[i].desc)
                           ELSE Chars(""), <<n>>, TRUE)])

\* `if subset.empty:` of split_by_protocol: the looser match replaces a
\* selection that is empty.
OrLooseSubset(df, n, subset) == IF Empty(subset) THEN LooseSubset(df, n) ELSE subset

\* The candidate patterns of key k and the selection they make: the text
\* given for k when explicit, the patterns generated for digit n if not.
PrimarySubset(df, protocols, k, explicit, n) ==
    Loc(df, MatchPatterns(df, IF explicit THEN <<Chars(protocols[k])>>
                              ELSE DefaultPatterns(n)))

\* The loop of split_by_protocol over proto_keys from position i on, n being
\* the value the local n holds and pm the protocol_map filled so far. The
\* local n is assigned for a key without an explicit text only.
RECURSIVE SplitLoop(_, _, _, _, _, _)
SplitLoop(df, protocols, keys, i, n, pm) ==
    IF i > Len(keys) THEN pm
    ELSE LET k == keys[i]
             explicit == DOMAIN protocols # {} /\ k \in DOMAIN protocols
             n1 == IF explicit THEN n ELSE LastChar(k)
         IN SplitLoop(df, protocols, keys, i + 1, n1,
                      Put(pm, k, OrLooseSubset(df, n1,
                                    PrimarySubset(df, protocols, k, explicit, n1))))

\* list(protocols.keys()) if protocols else ["p1", "p2", "p3"]
ProtoKeys(protocols) ==
    IF DOMAIN protocols = {} THEN DefaultKeys
    ELSE SelectSeq(DefaultKeys, LAMBDA k : k \in DOMAIN protocols)

\* self.gdf.loc[mask].iloc[0].geometry when the mask marks a row, else None;
\* hits are the positions the mask marks.
FirstGeom(df, hits) == IF hits = {} THEN NoGeom ELSE df.rows[Min(hits)].geometry

\* _get_first_named_geom: the geometry of the first row whose name holds
\* name_substr, case ignored; None when there is none
GetFirstNamedGeom(df, name_substr) ==
    IF df = NoFrame THEN NoGeom
    ELSE FirstGeom(df, {i \in 1..Len(df.rows) :
                          StrContains(AsStr(df.rows[i].name), Chars(name_substr), FALSE)})

\* one artifact dictionary, or none when the geometry is None
ArtifactRow(nm, k, g) ==
    IF g # NoGeom THEN <<[name |-> nm, kind |-> k, geometry |-> g]>> ELSE <<>>

\* g_p1 for the geometry geom_p1 the searches gave
P1Frame(df, geom_p1) ==
    IF geom_p1 # NoGeom
    THEN ArtifactFrame(ArtifactRow("P1 Point", "point", geom_p1), df.crs)
    ELSE EmptyArtifacts(df.crs)

\* DeriveP1 with the two searches in the other order (mutant).
DeriveP1_P1First(df) ==
    P1Frame(df, PyOr(GetFirstNamedGeom(df, "P1"), GetFirstNamedGeom(df, "P1 Point")))

\* The p1 block of _build_protocol_artifacts: g_p1.
DeriveP1(df) ==
    P1Frame(df, PyOr(GetFirstNamedGeom(df, "P1 Point"), GetFirstNamedGeom(df, "P1")))

\* the kind the positional fallback gives the line at position i (from 0)
PositionalKind(i) ==
    CASE i = 0 -> "outer" [] i = 1 -> "inner" [] i = 2 -> "start_line"
      [] i = 3 -> "line_3" [] i = 4 -> "line_4" [] i = 5 -> "line_5"
      [] OTHER -> "line_n"

\* P2Frame with the lines of the p2 entry added by position whether or not
\* a role was found by name (mutant).
P2Frame_AlsoPositional(df, pm, outer, inner, start) ==
    LET named == ArtifactRow("P2 OuterLine", "outer", outer)
                 \o ArtifactRow("P2 InnerLine", "inner", inner)
                 \o ArtifactRow("P2 Start Line", "start_line", start)
        candidates == pm["p2"]
        lines == Loc(candidates, [i \in 1..Len(candidates.rows) |->
                    candidates.rows[i].geometry.type \in {"LineString", "MultiLineString"}])
        positional == [i \in 1..Len(lines.rows) |->
                        [name |-> lines.rows[i].name, kind |-> PositionalKind(i - 1),
                         geometry |-> lines.rows[i].geometry]]
        rows == IF "p2" \in DOMAIN pm THEN named \o positional ELSE named
    IN IF Len(rows) > 0 THEN ArtifactFrame(rows, df.crs) ELSE EmptyArtifacts(df.crs)

\* g_p2 for the geometries outer, inner and start the searches gave: the
\* artifacts of those found or, when none was found and protocol_map holds
\* p2, the lines of that entry with kinds by position.
P2Frame(df, pm, outer, inner, start) ==
    LET named == ArtifactRow("P2 OuterLine", "outer", outer)
                 \o ArtifactRow("P2 InnerLine", "inner", inner)
                 \o ArtifactRow("P2 Start Line", "start_line", start)
        candidates == pm["p2"]
        lines == Loc(candidates, [i \in 1..Len(candidates.rows) |->
                    candidates.rows[i].geometry.type \in {"LineString", "MultiLineString"}])
        positional == [i \in 1..Len(lines.rows) |->
                        [name |-> lines.rows[i].name, kind |-> PositionalKind(i - 1),
                         geometry |-> lines.rows[i].geometry]]
        rows == IF Len(named) = 0 /\ "p2" \in DOMAIN pm THEN positional ELSE named
    IN IF Len(rows) > 0 THEN ArtifactFrame(rows, df.crs) ELSE EmptyArtifacts(df.crs)

\* The p2 block of _build_protocol_artifacts: g_p2. pm is protocol_map as
\* the block finds it.
DeriveP2(df, pm) ==
    P2Frame(df, pm,
            PyOr(GetFirstNamedGeom(df, "P2 Outer"), GetFirstNamedGeom(df, "OuterLine")),
            PyOr(GetFirstNamedGeom(df, "P2 Inner"), GetFirstNamedGeom(df, "Inner Line")),
            PyOr(GetFirstNamedGeom(df, "P2 Start"), GetFirstNamedGeom(df, "Start Line")))

\* The choice of the crossing point from cross_geom = trail.intersection(
\* start_line): [via, geometry], via naming the branch taken.
PickCrossing(cross_geom) ==
    IF IsEmpty(cross_geom) THEN [via |-> "empty", geometry |-> NoGeom]
    ELSE IF cross_geom.type = "Point" THEN [via |-> "point", geometry |-> cross_geom]
    ELSE IF Len(cross_geom.geoms) > 0
         \* list(cross_geom.geoms)[0]
         THEN [via |-> "first_geom", geometry |-> cross_geom.geoms[1]]
         \* a geometry without .geoms: AttributeError, then the centroid
         ELSE [via |-> "centroid", geometry |-> Centroid(cross_geom)]

\* The outcome of the p3 block: g_p3 (frame), the locals trail, start_line,
\* cross_geom and crossing, the branch that chose the crossing (via) and
\* whether the block ended in its exception handler (raised).
P3Outcome(frame, raised, trail, start_line, cross_geom, pick) ==
    [frame |-> frame, raised |-> raised, trail |-> trail, start_line |-> start_line,
     cross_geom |-> cross_geom, crossing |-> pick.geometry, via |-> pick.via]

\* g_p3 for the rows collected
P3Frame(df, rows) ==
    IF Len(rows) > 0 THEN ArtifactFrame(rows, df.crs) ELSE EmptyArtifacts(df.crs)

\* The p3 block once trail, start_line and their intersection are known.
P3Crossing(df, trail, start_line, cross_geom, pick) ==
    P3Outcome(P3Frame(df, ArtifactRow("P3 Trail", "trail", trail)
                          \o ArtifactRow("P3 Crossing", "crossing", pick.geometry)),
              FALSE, trail, start_line, cross_geom, pick)

\* A geometry the geometry engine refuses: a LineString of one vertex.
Malformed(g) == g.type = "LineString" /\ Len(g.coords) = 1

\* a.intersection(b) raises (a GEOS error) on a malformed operand.
IntersectionFails(a, b) == Malformed(a) \/ Malformed(b)

\* The p3 block once trail and start_line are known: `if trail is not None
\* and start_line is not None` guards the intersection, and the handler
\* around it turns a failure of the intersection into crossing = None.
P3Intersect(df, trail, start_line) ==
    IF trail # NoGeom /\ start_line # NoGeom
    THEN IF IntersectionFails(trail, start_line)
         THEN P3Crossing(df, trail, start_line, NoGeom,
                         [via |-> "failed", geometry |-> NoGeom])
         ELSE P3Crossing(df, trail, start_line, Intersection(trail, start_line),
                         PickCrossing(Intersection(trail, start_line)))
    ELSE P3Crossing(df, trail, start_line, NoGeom, [via |-> "none", geometry |-> NoGeom])

\* The p3 block of _build_protocol_artifacts. pm is protocol_map as the
\* block finds it, trail the geometry its first search gave.
P3Block(df, pm, trail) ==
    LET look == "p2" \in DOMAIN pm /\ ~Empty(pm["p2"])
        df2 == pm["p2"]
        matches == Loc(df2, [i \in 1..Len(df2.rows) |-> df2.rows[i].kind = "start_line"])
        from_p2 == IF look /\ ~Empty(matches) THEN matches.rows[1].geometry ELSE NoGeom
    IN \* df2["kind"] on a frame without that column: KeyError
       IF look /\ "kind" \notin pm["p2"].cols
       THEN P3Outcome(EmptyArtifacts(df.crs), TRUE, trail, NoGeom, NoGeom,
                      [via |-> "none", geometry |-> NoGeom])
       ELSE P3Intersect(df, trail,
                        IF from_p2 # NoGeom THEN from_p2
                        ELSE PyOr(GetFirstNamedGeom(df, "P2 Start"),
                                  GetFirstNamedGeom(df, "Start Line")))

\* The p3 block of _build_protocol_artifacts, from its search of the trail.
DeriveP3(df, pm) ==
    P3Block(df, pm, PyOr(GetFirstNamedGeom(df, "P3 Trail"), GetFirstNamedGeom(df, "Trail")))

\* The record of a run of _build_protocol_artifacts before any run.
NoArtifacts ==
    [built |-> FALSE, p1 |-> NoFrame, p2 |-> NoFrame,
     p3 |-> [frame |-> NoFrame, raised |-> FALSE, trail |-> NoGeom, start_line |-> NoGeom,
             cross_geom |-> NoGeom, crossing |-> NoGeom, via |-> "none"]]

\* The end of _build_protocol_artifacts: g_p3 registered with setdefault.
BuildP3(pm, g_p1, g_p2, p3) ==
    [map |-> SetDefault(pm, "p3", p3.frame),
     art |-> [built |-> TRUE, p1 |-> g_p1, p2 |-> g_p2, p3 |-> p3]]

\* _build_protocol_artifacts from the registration of g_p2 on
BuildP2(df, pm, g_p1, g_p2) ==
    BuildP3(SetDefault(pm, "p2", g_p2), g_p1, g_p2, DeriveP3(df, SetDefault(pm, "p2", g_p2)))

\* _build_protocol_artifacts from the registration of g_p1 on
BuildP1(df, pm, g_p1) ==
    BuildP2(df, SetDefault(pm, "p1", g_p1), g_p1, DeriveP2(df, SetDefault(pm, "p1", g_p1)))

\* _build_protocol_artifacts on protocol_map pm: the map it leaves and the
\* artifact sets g_p1, g_p2, g_p3 it computed.
BuildProtocolArtifacts(df, pm) == BuildP1(df, pm, DeriveP1(df))

\* ------------------------------------------------------------------ state

VARIABLES
    kml_file,       \* the KML file at kml_path: its placemarks
    track_points,   \* the track points the pipeline holds (gdf_points)
    gdf,            \* self.gdf
    protocol_map,   \* self.protocol_map
    artifacts,      \* what the last run of _build_protocol_artifacts computed
    cleaner,        \* the GPXCleanerFormatter: [df, gdf, gdf_utm, time_is_datetime]
    ret             \* the last call: [op, args, exc, value]

vars == <<kml_file, track_points, gdf, protocol_map, artifacts, cleaner, ret>>

\* the value of a call that returns nothing or raised
NoValue == [none |-> TRUE]

Call(op, args, exc, value) == [op |-> op, args |-> args, exc |-> exc, value |-> value]

\* GPXCleanerFormatter.__init__
NewCleaner == [df |-> NoFrame, gdf |-> NoFrame, gdf_utm |-> NoFrame, time_is_datetime |-> FALSE]

\* __init__
Constructed ==
    /\ gdf = NoFrame
    /\ protocol_map = EmptyMap
    /\ artifacts = NoArtifacts
    /\ cleaner = NewCleaner
    /\ ret = Call("__init__", NoValue, Absent, NoValue)

\* a layer of track points: rows that hold a Point and no name
PointsFrame(crs, coords) ==
    [crs |-> crs, cols |-> {"geometry"},
     rows |-> [i \in 1..Len(coords) |->
                Row(i - 1, Absent, Absent, Absent, Pt(coords[i][1], coords[i][2]))]]

Init ==
    /\ kml_file \in Files
    /\ track_points = PointsFrame(WGS84, <<>>)
    /\ Constructed

\* load(kml_path)
Load ==
    /\ gdf' = ReadFile(kml_file)
    /\ ret' = Call("load", NoValue, Absent, NoValue)
    /\ UNCHANGED <<cleaner, kml_file, track_points, protocol_map, artifacts>>

\* The mappings split_by_protocol is called with: none, or the search text
\* of some of the keys.
ExplicitPattern(k) ==
    CASE k = "p1" -> "Protocolo 1" [] k = "p2" -> "Protocolo 2" [] k = "p3" -> "Protocolo 3"
ProtocolArgs == {EmptyMap} \cup {[k \in {x} |-> ExplicitPattern(k)] : x \in {"p1", "p2"}}

\* SplitByProtocol that leaves in self.gdf the subset of the first key
\* (mutant).
SplitByProtocol_Narrowing(protocols) ==
    IF gdf = NoFrame
    THEN /\ ret' = Call("split_by_protocol", protocols, "RuntimeError", NoValue)
         /\ UNCHANGED <<cleaner, kml_file, track_points, gdf, protocol_map, artifacts>>
    ELSE LET Store(built) == /\ protocol_map' = built.map
                             /\ artifacts' = built.art
                             /\ gdf' = built.map[ProtoKeys(protocols)[1]]
         IN /\ Store(BuildProtocolArtifacts(gdf,
                        SplitLoop(gdf, protocols, ProtoKeys(protocols), 1, Absent, EmptyMap)))
            /\ ret' = Call("split_by_protocol", protocols, Absent, NoValue)
            /\ UNCHANGED <<cleaner, kml_file, track_points>>

\* split_by_protocol(protocols)
SplitByProtocol(protocols) ==
    IF gdf = NoFrame
    THEN /\ ret' = Call("split_by_protocol", protocols, "RuntimeError", NoValue)
         /\ UNCHANGED <<cleaner, kml_file, track_points, gdf, protocol_map, artifacts>>
    ELSE LET Store(built) == /\ protocol_map' = built.map
                             /\ artifacts' = built.art
         IN /\ Store(BuildProtocolArtifacts(gdf,
                        SplitLoop(gdf, protocols, ProtoKeys(protocols), 1, Absent, EmptyMap)))
            /\ ret' = Call("split_by_protocol", protocols, Absent, NoValue)
            /\ UNCHANGED <<cleaner, kml_file, track_points, gdf>>

\* get_protocol_refs(key): a copy of the entry, KeyError for an unknown key
GetProtocolRefs(key) ==
    IF key \notin DOMAIN protocol_map THEN Call("get_protocol_refs", key, "KeyError", NoValue)
    ELSE Call("get_protocol_refs", key, Absent, protocol_map[key])

Next ==
    \/ Load
    \/ \E protocols \in ProtocolArgs : SplitByProtocol(protocols)

Spec == Init /\ [][Next]_vars

\* KML files of protocol 2: lines that carry no role name, a point of
\* protocol 2, and two lines with a role name.
P2Catalogue ==
    {f \in Catalogue : f.name \in {"Protocolo 2", "Ruta 2", "P2 OuterLine", "Start Line"}}
    \cup {[name |-> "P2 Mark", desc |-> Absent, geometry |-> Pt(4, 0)]}
P2Files == SeqUpTo(P2Catalogue, MaxP2Features)

InitP2 ==
    /\ kml_file \in P2Files
    /\ track_points = PointsFrame(WGS84, <<>>)
    /\ Constructed

SpecP2 == InitP2 /\ [][Next]_vars

\* KML files for the matching of names: a placemark without name, names
\* and descriptions that hold a pattern, in either case of the letters.
MatchCatalogue ==
    { [name |-> Absent, desc |-> Absent, geometry |-> Pt(3, 3)],
      [name |-> "Protocol One", desc |-> Absent, geometry |-> Pt(1, 1)],
      [name |-> "P1 Point", desc |-> "Zona Protocolo 1", geometry |-> Pt(0, 0)],
      [name |-> "Meta", desc |-> "Zona Protocolo 1", geometry |-> Pt(4, 4)],
      [name |-> "p1 base", desc |-> Absent, geometry |-> Pt(2, 0)] }
MatchFiles == SeqUpTo(MatchCatalogue, MaxMatchFeatures)

\* The mappings split_by_protocol is called with there.
MatchProtocolArgs ==
    {EmptyMap} \cup {[k \in {"p1"} |-> pat] : pat \in {"One", "Protocolo 1"}}

InitMatch ==
    /\ kml_file \in MatchFiles
    /\ track_points = PointsFrame(WGS84, <<>>)
    /\ Constructed

NextMatch ==
    \/ Load
    \/ \E protocols \in MatchProtocolArgs : SplitByProtocol(protocols)

SpecMatch == InitMatch /\ [][NextMatch]_vars

\* KML files of trails and start lines: a trail that crosses the start
\* lines, one that misses them, a malformed one, and two start lines.
CrossCatalogue ==
    { [name |-> "P3 Trail", desc |-> Absent,
       geometry |-> Line(<< <<1, 1>>, <<2, 1>>, <<3, 1>>, <<4, 1>> >>)],
      [name |-> "P3 Trail", desc |-> Absent,
       geometry |-> Line(<< <<0, 4>>, <<1, 4>> >>)],
      [name |-> "Trail", desc |-> Absent, geometry |-> Line(<< <<2, 1>> >>)],
      [name |-> "Start Line", desc |-> Absent,
       geometry |-> Line(<< <<3, 0>>, <<3, 1>> >>)],
      [name |-> "P2 Start Line", desc |-> Absent, geometry |-> StartS] }
CrossFiles == SeqUpTo(CrossCatalogue, MaxCrossFeatures)

InitCross ==
    /\ kml_file \in CrossFiles
    /\ track_points = PointsFrame(WGS84, <<>>)
    /\ Constructed

SpecCross == InitCross /\ [][Next]_vars

\* ------------------------------------------------------ lonlat_to_utm_epsg

\* Longitudes and latitudes are counted in half degrees (lon2 = 2 * lon), so
\* that (lon + 180) // 6 is (lon2 + 360) \div 12; \div rounds down, as // and
\* math.floor do, and % has the sign of the divisor, as in Python.

\* KMLProtocolAnalyzer.lonlat_to_utm_epsg without the wrap of the zone into
\* 1..60 (mutant).
KmlLonLatToUtmEpsg_NoWrap(lon2, lat2) ==
    LET zone == ((lon2 + 360) \div 12) + 1
    IN IF lat2 >= 0 THEN 32600 + zone ELSE 32700 + zone

\* KMLProtocolAnalyzer.lonlat_to_utm_epsg:
\* zone = int(((lon + 180) // 6) % 60) + 1
KmlLonLatToUtmEpsg(lon2, lat2) ==
    LET zone == (((lon2 + 360) \div 12) % 60) + 1
    IN IF lat2 >= 0 THEN 32600 + zone ELSE 32700 + zone

\* GPXCleanerFormatter.lonlat_to_utm_epsg:
\* zone = int((math.floor((lon + 180) / 6) % 60) + 1)
GpxLonLatToUtmEpsg(lon2, lat2) ==
    LET floor == (lon2 + 360) \div 12
        zone == (floor % 60) + 1
    IN IF lat2 >= 0 THEN 32600 + zone ELSE 32700 + zone

Lons2 == (-2 * MaxLon)..(2 * MaxLon)
Lats2 == (-2 * MaxLat)..(2 * MaxLat)

\* The two functions are static and read no state: a call from the state
\* after construction stands for a call from any state.
Fresh == ret.op = "__init__"

\* a call of KMLProtocolAnalyzer.lonlat_to_utm_epsg(lon, lat)
KmlResolve(lon2, lat2) ==
    /\ ret' = Call("KMLProtocolAnalyzer.lonlat_to_utm_epsg", [lon2 |-> lon2, lat2 |-> lat2],
                   Absent, KmlLonLatToUtmEpsg(lon2, lat2))
    /\ UNCHANGED <<cleaner, kml_file, track_points, gdf, protocol_map, artifacts>>

\* a call of GPXCleanerFormatter.lonlat_to_utm_epsg(lon, lat)
GpxResolve(lon2, lat2) ==
    /\ ret' = Call("GPXCleanerFormatter.lonlat_to_utm_epsg", [lon2 |-> lon2, lat2 |-> lat2],
                   Absent, GpxLonLatToUtmEpsg(lon2, lat2))
    /\ UNCHANGED <<cleaner, kml_file, track_points, gdf, protocol_map, artifacts>>

InitUtm ==
    /\ kml_file = <<>>
    /\ track_points = PointsFrame(WGS84, <<>>)
    /\ Constructed

NextUtm ==
    /\ Fresh
    /\ \E lon2 \in Lons2, lat2 \in Lats2 : KmlResolve(lon2, lat2) \/ GpxResolve(lon2, lat2)

SpecUtm == InitUtm /\ [][NextUtm]_vars

\* ----------------------------------------------------- attach_refs_to_gdf

\* A row of a join result: the position of the point, the index of the
\* matched reference row (none: NaN) and, for a nearest join, the squared
\* distance to it (the distance column holds its root, which orders and
\* ties the same way).
JoinRow(i, right, d) == [left |-> i, index_right |-> right, dist2 |-> d]

\* the rows the maker gives for the positions k..Len(s) of s, concatenated
RECURSIVE Flatten(_, _)
Flatten(parts, k) == IF k > Len(parts) THEN <<>> ELSE parts[k] \o Flatten(parts, k + 1)

\* SjoinNearest keeping, of the geometries at the least distance, the first
\* alone (mutant).
SjoinNearest_FirstOnly(left, right) ==
    [i \in 1..Len(left.rows) |->
        LET p == left.rows[i].geometry.coords[1]
            D(j) == GeomDist2(p, right.rows[j].geometry)
            near == {j \in 1..Len(right.rows) : \A k \in 1..Len(right.rows) : D(j) <= D(k)}
        IN IF near = {} THEN JoinRow(i, <<>>, <<>>)
           ELSE JoinRow(i, <<right.rows[Min(near)].idx>>, <<D(Min(near))>>)]

\* SjoinNearest matching every point to the first reference (mutant).
SjoinNearest_ToFirst(left, right) ==
    [i \in 1..Len(left.rows) |->
        IF Len(right.rows) = 0 THEN JoinRow(i, <<>>, <<>>)
        ELSE JoinRow(i, <<right.rows[1].idx>>,
                     <<GeomDist2(left.rows[i].geometry.coords[1], right.rows[1].geometry)>>)]

\* gpd.sjoin_nearest(left, right, how="left", distance_col=...): for every
\* left point one row per right geometry at the least distance, in the order
\* of the right frame; a single row without match when right is empty.
SjoinNearest(left, right) ==
    Flatten([i \in 1..Len(left.rows) |->
        LET p == left.rows[i].geometry.coords[1]
            D(j) == GeomDist2(p, right.rows[j].geometry)
            near == {j \in 1..Len(right.rows) : \A k \in 1..Len(right.rows) : D(j) <= D(k)}
            order == SortedSeq(near)
        IN IF near = {} THEN <<JoinRow(i, <<>>, <<>>)>>
           ELSE [k \in 1..Len(order) |->
                    JoinRow(i, <<right.rows[order[k]].idx>>, <<D(order[k])>>)]], 1)

\* SjoinWithin keeping, of the geometries a point is within, the first alone
\* (mutant).
SjoinWithin_FirstOnly(left, right) ==
    [i \in 1..Len(left.rows) |->
        LET p == left.rows[i].geometry.coords[1]
            inside == {j \in 1..Len(right.rows) : PointWithin(p, right.rows[j].geometry)}
        IN IF inside = {} THEN JoinRow(i, <<>>, <<>>)
           ELSE JoinRow(i, <<right.rows[Min(inside)].idx>>, <<>>)]

\* gpd.sjoin(left, right, how="left", predicate="within"): for every left
\* point one row per right geometry it is within, in the order of the right
\* frame; a single row without match when there is none.
SjoinWithin(left, right) ==
    Flatten([i \in 1..Len(left.rows) |->
        LET p == left.rows[i].geometry.coords[1]
            inside == {j \in 1..Len(right.rows) : PointWithin(p, right.rows[j].geometry)}
            order == SortedSeq(inside)
        IN IF inside = {} THEN <<JoinRow(i, <<>>, <<>>)>>
           ELSE [k \in 1..Len(order) |-> JoinRow(i, <<right.rows[order[k]].idx>>, <<>>)]], 1)

\* AttachRefsToGdf without the comparison of the two CRS (mutant).
AttachRefsToGdf_NoCrsCheck(protocol_key, how) ==
    LET args == [gdf_points |-> track_points, protocol_key |-> protocol_key, how |-> how]
        gdf_refs == protocol_map[protocol_key]
        Raise(e) == ret' = Call("attach_refs_to_gdf", args, e, NoValue)
        Return(v) == ret' = Call("attach_refs_to_gdf", args, Absent, v)
    IN /\ IF protocol_key \notin DOMAIN protocol_map THEN Raise("KeyError")
          ELSE IF how = "nearest" THEN Return(SjoinNearest(track_points, gdf_refs))
          ELSE IF how = "within" THEN Return(SjoinWithin(track_points, gdf_refs))
          ELSE Raise("ValueError: Unknown how")
       /\ UNCHANGED <<cleaner, kml_file, track_points, gdf, protocol_map, artifacts>>

\* AttachRefsToGdf with every mode other than "nearest" taken as a within
\* join (mutant).
AttachRefsToGdf_ElseWithin(protocol_key, how) ==
    LET args == [gdf_points |-> track_points, protocol_key |-> protocol_key, how |-> how]
        gdf_refs == protocol_map[protocol_key]
        Raise(e) == ret' = Call("attach_refs_to_gdf", args, e, NoValue)
        Return(v) == ret' = Call("attach_refs_to_gdf", args, Absent, v)
    IN /\ IF protocol_key \notin DOMAIN protocol_map THEN Raise("KeyError")
          ELSE IF track_points.crs # gdf_refs.crs THEN Raise("ValueError: CRS mismatch")
          ELSE IF how = "nearest" THEN Return(SjoinNearest(track_points, gdf_refs))
          ELSE Return(SjoinWithin(track_points, gdf_refs))
       /\ UNCHANGED <<cleaner, kml_file, track_points, gdf, protocol_map, artifacts>>

\* attach_refs_to_gdf(gdf_points, protocol_key, how) on the track points
AttachRefsToGdf(protocol_key, how) ==
    LET args == [gdf_points |-> track_points, protocol_key |-> protocol_key, how |-> how]
        gdf_refs == protocol_map[protocol_key]
        Raise(e) == ret' = Call("attach_refs_to_gdf", args, e, NoValue)
        Return(v) == ret' = Call("attach_refs_to_gdf", args, Absent, v)
    IN /\ IF protocol_key \notin DOMAIN protocol_map THEN Raise("KeyError")
          ELSE IF track_points.crs # gdf_refs.crs THEN Raise("ValueError: CRS mismatch")
          ELSE IF how = "nearest" THEN Return(SjoinNearest(track_points, gdf_refs))
          ELSE IF how = "within" THEN Return(SjoinWithin(track_points, gdf_refs))
          ELSE Raise("ValueError: Unknown how")
       /\ UNCHANGED <<cleaner, kml_file, track_points, gdf, protocol_map, artifacts>>

\* The KML files and the track points of the join specification.
JoinCatalogue ==
    {f \in Catalogue : f.name \in {"P1 Point", "p1 base", "P2 Start Line"}}
JoinFiles == SeqUpTo(JoinCatalogue, MaxJoinFeatures)
UTM30N == "EPSG:32630"
TrackCoords == {<<0, 0>>, <<1, 0>>, <<2, 1>>}
TrackPoints ==
    {PointsFrame(crs, cs) : crs \in {WGS84, UTM30N}, cs \in SeqUpTo(TrackCoords, MaxPoints)}
JoinProtocolArgs == {EmptyMap, [k \in {"p2"} |-> ExplicitPattern(k)]}
JoinKeys == {"p1", "p2"}
JoinModes == {"nearest", "within", "intersects", "Nearest", ""}

InitJoin ==
    /\ kml_file \in JoinFiles
    /\ track_points \in TrackPoints
    /\ Constructed

NextJoin ==
    \/ Load
    \/ \E protocols \in JoinProtocolArgs : SplitByProtocol(protocols)
    \/ \E protocol_key \in JoinKeys, how \in JoinModes : AttachRefsToGdf(protocol_key, how)

SpecJoin == InitJoin /\ [][NextJoin]_vars

\* -------------------------------------------------------------- projection

\* f"EPSG:{epsg}"
EpsgName(epsg) == "EPSG:" \o ToString(epsg)

\* The UTM zone of a projected CRS, read back from its name.
ZoneOf(crs) == CHOOSE z \in 1..60 : crs \in {EpsgName(32600 + z), EpsgName(32700 + z)}

\* The central meridian of a UTM zone, in degrees.
CentralMeridian(zone) == 6 * zone - 183

\* pyproj's transformation of one coordinate. The lattice unit is kept on
\* both sides: a coordinate in a UTM zone is counted from the zone's central
\* meridian, a coordinate in EPSG:4326 from Greenwich, so that the
\* transformation moves every coordinate, depends on the zone and is undone
\* by the transformation back.
Reproject(c, from, to) ==
    IF from = to THEN c
    ELSE LET Leave(lon) == IF to = WGS84 THEN <<lon, c[2]>>
                           ELSE <<lon - CentralMeridian(ZoneOf(to)), c[2]>>
         IN Leave(IF from = WGS84 THEN c[1] ELSE c[1] + CentralMeridian(ZoneOf(from)))

\* the transformation of a geometry: of every coordinate of it
RECURSIVE ReprojectGeom(_, _, _)
ReprojectGeom(g, from, to) ==
    [type |-> g.type,
     coords |-> [i \in 1..Len(g.coords) |-> Reproject(g.coords[i], from, to)],
     geoms |-> [i \in 1..Len(g.geoms) |-> ReprojectGeom(g.geoms[i], from, to)]]

\* GeoDataFrame.to_crs(target)
ToCrs(df, target) ==
    [df EXCEPT !.crs = target,
               !.rows = [i \in 1..Len(df.rows) |->
                          [df.rows[i] EXCEPT !.geometry = ReprojectGeom(@, df.crs, target)]]]

\* the sum of the i-th coordinates of a set of coordinates
RECURSIVE SumOver(_, _)
SumOver(S, i) ==
    IF S = {} THEN 0
    ELSE LET c == CHOOSE c \in S : TRUE IN c[i] + SumOver(S \ {c}, i)

\* unary_union.centroid of a layer of points, in half degrees rounded down:
\* the union holds every distinct point once and its centroid is their mean.
\* The rounding crosses neither a zone border nor the equator.
UnionCentroid2(df) ==
    LET Mean2(S) == <<(2 * SumOver(S, 1)) \div Cardinality(S),
                      (2 * SumOver(S, 2)) \div Cardinality(S)>>
    IN Mean2({df.rows[i].geometry.coords[1] : i \in 1..Len(df.rows)})

\* What project_refs_to_utm_for_points(gdf_points, protocol_key) does to an
\* analyzer holding the layer g and the map pm: [exc, gdf, map, value].
ProjectOutcome(exc, g, pm, value) == [exc |-> exc, gdf |-> g, map |-> pm, value |-> value]

ProjectTo(g, pm, protocol_key, epsg) ==
    IF protocol_key = Absent
    THEN ProjectOutcome(Absent,
                        IF g # NoFrame THEN ToCrs(g, EpsgName(epsg)) ELSE g,
                        [k \in DOMAIN pm |-> ToCrs(pm[k], EpsgName(epsg))], epsg)
    ELSE IF protocol_key \notin DOMAIN pm THEN ProjectOutcome("KeyError", g, pm, NoValue)
    ELSE ProjectOutcome(Absent, g,
                        [pm EXCEPT ![protocol_key] = ToCrs(@, EpsgName(epsg))], epsg)

EpsgOfCentroid(c2) == KmlLonLatToUtmEpsg(c2[1], c2[2])

ProjectRefs(g, pm, gdf_points, protocol_key) ==
    IF gdf_points = NoFrame \/ Empty(gdf_points)
    THEN ProjectOutcome("ValueError: gdf_points is empty or None", g, pm, NoValue)
    ELSE ProjectTo(g, pm, protocol_key,
                   EpsgOfCentroid(UnionCentroid2(
                       IF gdf_points.crs # WGS84 THEN ToCrs(gdf_points, WGS84) ELSE gdf_points)))

\* project_refs_to_utm_for_points(gdf_points, protocol_key) on the track
\* points; protocol_key is Absent when the argument is left out
ProjectRefsToUtmForPoints(protocol_key) ==
    LET Done(out) ==
            /\ gdf' = out.gdf
            /\ protocol_map' = out.map
            /\ ret' = Call("project_refs_to_utm_for_points",
                           [gdf_points |-> track_points, protocol_key |-> protocol_key],
                           out.exc, out.value)
    IN /\ Done(ProjectRefs(gdf, protocol_map, track_points, protocol_key))
       /\ UNCHANGED <<cleaner, kml_file, track_points, artifacts>>

\* KML_process_per_file(fp, params) for an existing KML file: a new analyzer,
\* load, split_by_protocol(params.get("protocols")) and, when params holds
\* gdf_points, project_refs_to_utm_for_points inside `try ... except
\* Exception: pass`. The analyzer returned becomes the analyzer of the state.
\* with_points tells whether params holds the track points.
KmlProcessPerFile(protocols, with_points) ==
    LET Return(built, out) ==
            /\ gdf' = out.gdf
            /\ protocol_map' = out.map
            /\ artifacts' = built.art
        Project(loaded, built) ==
            Return(built,
                   IF with_points THEN ProjectRefs(loaded, built.map, track_points, Absent)
                   ELSE ProjectOutcome(Absent, loaded, built.map, NoValue))
        Split(loaded) ==
            Project(loaded,
                    BuildProtocolArtifacts(loaded,
                        SplitLoop(loaded, protocols, ProtoKeys(protocols), 1, Absent, EmptyMap)))
    IN /\ Split(ReadFile(kml_file))
       /\ ret' = Call("KML_process_per_file",
                      [protocols |-> protocols,
                       gdf_points |-> IF with_points THEN <<track_points>> ELSE <<>>],
                      Absent, NoValue)
       /\ UNCHANGED <<cleaner, kml_file, track_points>>

\* The time of a point that has none (NaT), outside the times of the model.
NaT == -1

\* The GPX files on disk and the track points they hold, as [time, coord];
\* a path not listed holds no point or is no file, and load skips it.
GpxPoint(t, c) == [time |-> t, coord |-> c]
GpxContents(fp) ==
    CASE fp = "a.gpx" -> <<GpxPoint(1, <<-3, 40>>), GpxPoint(2, <<-1, 40>>)>>
      [] fp = "b.gpx" -> <<GpxPoint(2, <<9, -1>>), GpxPoint(NaT, <<9, -1>>)>>
      [] OTHER -> <<>>

\* the rows load collects from the files, file after file
RECURSIVE GpxRead(_)
GpxRead(file_paths) ==
    IF file_paths = <<>> THEN <<>>
    ELSE [j \in 1..Len(GpxContents(Head(file_paths))) |->
            [time |-> GpxContents(Head(file_paths))[j].time,
             source_file |-> Head(file_paths),
             coord |-> GpxContents(Head(file_paths))[j].coord]] \o GpxRead(Tail(file_paths))

\* gpd.GeoDataFrame(self.df.copy(), geometry=..., crs="EPSG:4326"): a row is
\* [idx, time, source_file, geometry]
GpxFrame(pts) ==
    [crs |-> WGS84, cols |-> {"time", "source_file", "geometry"},
     rows |-> [i \in 1..Len(pts) |->
                [idx |-> i - 1, time |-> pts[i].time, source_file |-> pts[i].source_file,
                 geometry |-> Pt(pts[i].coord[1], pts[i].coord[2])]]]

\* pd.DataFrame(g.drop(columns="geometry"))
DropGeometry(g) ==
    [crs |-> Absent, cols |-> g.cols \ {"geometry"},
     rows |-> [i \in 1..Len(g.rows) |->
                [idx |-> g.rows[i].idx, time |-> g.rows[i].time,
                 source_file |-> g.rows[i].source_file]]]

\* GPXCleanerFormatter.load(file_paths): df and gdf are replaced, gdf_utm is
\* not touched. The time column is made of datetimes when there are rows;
\* without rows the columns of the empty frame have the dtype object.
GpxLoad(file_paths) ==
    LET Keep(frame) ==
            cleaner' = [cleaner EXCEPT !.df = DropGeometry(frame), !.gdf = frame,
                                       !.time_is_datetime = ~Empty(frame)]
    IN /\ Keep(GpxFrame(GpxRead(file_paths)))
       /\ ret' = Call("GPXCleanerFormatter.load", file_paths, Absent, NoValue)
       /\ UNCHANGED <<kml_file, track_points, gdf, protocol_map, artifacts>>

\* (self.gdf["time"] >= start_ts) & (self.gdf["time"] <= end_ts) with the end
\* left out of the range (mutant).
TimeMask_OpenEnd(df, start, end) ==
    [i \in 1..Len(df.rows) |->
        df.rows[i].time # NaT /\ start <= df.rows[i].time /\ df.rows[i].time < end]

\* (self.gdf["time"] >= start_ts) & (self.gdf["time"] <= end_ts): a
\* comparison with NaT is false
TimeMask(df, start, end) ==
    [i \in 1..Len(df.rows) |->
        df.rows[i].time # NaT /\ start <= df.rows[i].time /\ df.rows[i].time <= end]

\* self.gdf["source_file"].isin(sources)
SourceMask(df, sources) == [i \in 1..Len(df.rows) |-> df.rows[i].source_file \in sources]

\* the rows of the other files, all dropped (mutant)
Others_Dropped(df, sources) == Loc(df, [i \in 1..Len(df.rows) |-> FALSE])

\* self.gdf.loc[~source_mask].copy()
Others(df, sources) == Loc(df, [i \in 1..Len(df.rows) |-> ~SourceMask(df, sources)[i]])

\* subset.loc[mask] of the subset self.gdf.loc[source_mask]
FilteredSubset(df, start, end, sources) ==
    LET InRange(subset) == Loc(subset, TimeMask(subset, start, end))
    IN InRange(Loc(df, SourceMask(df, sources)))

\* pd.concat([a, b], ignore_index=True): the rows of a then those of b,
\* with the positions 0, 1, ... as index
Concat(a, b) ==
    LET Renumber(rows) == [i \in 1..Len(rows) |-> [rows[i] EXCEPT !.idx = i - 1]]
    IN [a EXCEPT !.rows = Renumber(a.rows \o b.rows)]

\* filter_time_range(start, end, inplace, source_files); source_files is
\* <<>> when the argument is left out and <<sources>> otherwise. Reading
\* self.gdf["time"].dt raises AttributeError when the column holds no
\* datetimes. The time zone of start and end is brought to that of the
\* column before the comparison; the times of the model are instants.
FilterTimeRange(start, end, inplace, source_files) ==
    LET args == [start |-> start, end |-> end, inplace |-> inplace,
                 source_files |-> source_files]
        Raise(e) == /\ ret' = Call("filter_time_range", args, e, NoValue)
                    /\ UNCHANGED cleaner
        Whole(filtered) ==
            /\ cleaner' = IF inplace
                          THEN [cleaner EXCEPT !.gdf = filtered, !.df = DropGeometry(filtered)]
                          ELSE cleaner
            /\ ret' = Call("filter_time_range", args, Absent, filtered)
        Replace(merged, filtered_subset) ==
            /\ cleaner' = IF inplace
                          THEN [cleaner EXCEPT !.gdf = merged, !.df = DropGeometry(merged)]
                          ELSE cleaner
            /\ ret' = Call("filter_time_range", args, Absent, filtered_subset)
        Part(other, filtered_subset) == Replace(Concat(other, filtered_subset), filtered_subset)
    IN /\ IF cleaner.gdf = NoFrame THEN Raise("RuntimeError")
          ELSE IF ~cleaner.time_is_datetime THEN Raise("AttributeError")
          ELSE IF source_files = <<>>
          THEN Whole(Loc(cleaner.gdf, TimeMask(cleaner.gdf, start, end)))
          ELSE Part(Others(cleaner.gdf, source_files[1]),
                    FilteredSubset(cleaner.gdf, start, end, source_files[1]))
       /\ UNCHANGED <<kml_file, track_points, gdf, protocol_map, artifacts>>

\* to_utm stores or returns the layer projected to the zone of (lon, lat)
ToUtmProject(inplace, c2) ==
    LET Keep(proj) ==
            /\ cleaner' = IF inplace THEN [cleaner EXCEPT !.gdf_utm = proj] ELSE cleaner
            /\ ret' = Call("to_utm", [inplace |-> inplace], Absent, proj)
    IN Keep(ToCrs(cleaner.gdf, EpsgName(GpxLonLatToUtmEpsg(c2[1], c2[2]))))

\* to_utm(epsg=None, inplace, source_files=None). On a layer without rows
\* the centroid of the union is an empty point, and what reading its x does
\* depends on the shapely installed: it raises, the handler takes lon = lat =
\* 0.0 and the empty layer is projected; or it gives NaN, no handler runs
\* and math.floor(NaN) raises ValueError in lonlat_to_utm_epsg.
ToUtm(inplace) ==
    /\ IF cleaner.gdf = NoFrame
       THEN /\ ret' = Call("to_utm", [inplace |-> inplace], "RuntimeError", NoValue)
            /\ UNCHANGED cleaner
       ELSE IF Empty(cleaner.gdf)
       THEN \/ ToUtmProject(inplace, <<0, 0>>)
            \/ /\ ret' = Call("to_utm", [inplace |-> inplace], "ValueError", NoValue)
               /\ UNCHANGED cleaner
       ELSE ToUtmProject(inplace, UnionCentroid2(cleaner.gdf))
    /\ UNCHANGED <<kml_file, track_points, gdf, protocol_map, artifacts>>

\* The KML files, the track points and the arguments of the projection
\* specification.
ProjFile ==
    << CHOOSE f \in Catalogue : f.name = "P1 Point",
       CHOOSE f \in Catalogue : f.name = "P2 Start Line" >>
ProjCoords == {<<-3, 40>>, <<9, -1>>}
GpxFileArgs == SeqUpTo({"a.gpx", "b.gpx"}, MaxGpxFiles)
ProjPoints ==
    {PointsFrame(crs, cs) : crs \in {WGS84, UTM30N}, cs \in SeqUpTo(ProjCoords, MaxPoints)}
ProjKeys == {Absent, "p1", "p9"}

InitProj ==
    /\ kml_file = ProjFile
    /\ track_points \in ProjPoints
    /\ Constructed

NextProj ==
    \/ Load
    \/ SplitByProtocol(EmptyMap)
    \/ \E protocol_key \in ProjKeys : ProjectRefsToUtmForPoints(protocol_key)
    \/ \E with_points \in BOOLEAN : KmlProcessPerFile(EmptyMap, with_points)
    \/ \E file_paths \in GpxFileArgs : GpxLoad(file_paths)
    \/ \E inplace \in BOOLEAN : ToUtm(inplace)

SpecProj == InitProj /\ [][NextProj]_vars

\* The cleaner alone: load, filter_time_range and to_utm. The times of the
\* points are 1, 2 and NaT; a range runs from any time to any time.
GpxTimes == 1..MaxTime
GpxSourceArgs == {<<>>, <<{"a.gpx"}>>, <<{"b.gpx"}>>}

InitGpx ==
    /\ kml_file = <<>>
    /\ track_points = PointsFrame(WGS84, <<>>)
    /\ Constructed

NextGpx ==
    \/ \E file_paths \in GpxFileArgs : GpxLoad(file_paths)
    \/ \E start \in GpxTimes, end \in GpxTimes, inplace \in BOOLEAN,
          source_files \in GpxSourceArgs : FilterTimeRange(start, end, inplace, source_files)
    \/ \E inplace \in BOOLEAN : ToUtm(inplace)

SpecGpx == InitGpx /\ [][NextGpx]_vars

\* ------------------------------------------------- projection of references

\* The EPSG codes to_crs knows in the model: EPSG:4326 and the UTM zones.
\* For any other code pyproj raises CRSError.
KnownEpsg(epsg) ==
    epsg = 4326 \/ (epsg - 32600) \in 1..60 \/ (epsg - 32700) \in 1..60

\* ProjectRefsEpsg that projects self.gdf before it looks the key up
\* (mutant).
ProjectRefsEpsg_GdfFirst(g, pm, epsg, protocol_key) ==
    IF g = NoFrame THEN ProjectOutcome("RuntimeError", g, pm, NoValue)
    ELSE IF ~KnownEpsg(epsg) THEN ProjectOutcome("CRSError", g, pm, NoValue)
    ELSE IF protocol_key = Absent
    THEN ProjectOutcome(Absent, ToCrs(g, EpsgName(epsg)),
                        [k \in DOMAIN pm |-> ToCrs(pm[k], EpsgName(epsg))], NoValue)
    ELSE IF protocol_key \notin DOMAIN pm
    THEN ProjectOutcome("KeyError", ToCrs(g, EpsgName(epsg)), pm, NoValue)
    ELSE ProjectOutcome(Absent, g, [pm EXCEPT ![protocol_key] = ToCrs(@, EpsgName(epsg))],
                        NoValue)

\* What project_refs_to_epsg(epsg, protocol_key) does to an analyzer holding
\* the layer g and the map pm: [exc, gdf, map, value]. The layers are
\* projected one by one and each one is assigned as soon as projected.
ProjectRefsEpsg(g, pm, epsg, protocol_key) ==
    IF g = NoFrame THEN ProjectOutcome("RuntimeError", g, pm, NoValue)
    ELSE IF protocol_key = Absent
    THEN IF KnownEpsg(epsg)
         THEN ProjectOutcome(Absent, ToCrs(g, EpsgName(epsg)),
                             [k \in DOMAIN pm |-> ToCrs(pm[k], EpsgName(epsg))], NoValue)
         ELSE ProjectOutcome("CRSError", g, pm, NoValue)
    ELSE IF protocol_key \notin DOMAIN pm THEN ProjectOutcome("KeyError", g, pm, NoValue)
    ELSE IF KnownEpsg(epsg)
    THEN ProjectOutcome(Absent, g, [pm EXCEPT ![protocol_key] = ToCrs(@, EpsgName(epsg))],
                        NoValue)
    ELSE ProjectOutcome("CRSError", g, pm, NoValue)

\* project_refs_to_epsg(epsg, protocol_key); protocol_key is Absent when the
\* argument is left out
ProjectRefsToEpsg(epsg, protocol_key) ==
    LET Done(out) ==
            /\ gdf' = out.gdf
            /\ protocol_map' = out.map
            /\ ret' = Call("project_refs_to_epsg",
                           [epsg |-> epsg, protocol_key |-> protocol_key], out.exc, out.value)
    IN /\ Done(ProjectRefsEpsg(gdf, protocol_map, epsg, protocol_key))
       /\ UNCHANGED <<cleaner, kml_file, track_points, artifacts>>

\* The arguments of the specification of the references: EPSG:4326, two UTM
\* zones and a code that is no CRS; no key, a key of the map and a key that
\* is never in it.
RefEpsgs == {4326, 32630, 32631, 0}
RefKeys == {Absent, "p1", "p9"}
RefModes == {"nearest", "within", "intersects"}
RefPoints ==
    {PointsFrame(crs, cs) : crs \in {WGS84, UTM30N}, cs \in SeqUpTo({<<-3, 40>>}, MaxPoints)}

InitRefs ==
    /\ kml_file = ProjFile
    /\ track_points \in RefPoints
    /\ Constructed

NextRefs ==
    \/ Load
    \/ SplitByProtocol(EmptyMap)
    \/ \E epsg \in RefEpsgs, protocol_key \in RefKeys : ProjectRefsToEpsg(epsg, protocol_key)
    \/ \E protocol_key \in RefKeys : ProjectRefsToUtmForPoints(protocol_key)
    \/ \E protocol_key \in RefKeys \ {Absent}, how \in RefModes :
          AttachRefsToGdf(protocol_key, how)

SpecRefs == InitRefs /\ [][NextRefs]_vars

\* ------------------------------------------- KML_process_per_file: the file

\* A path is [name, exists, suffix].
PathOf(name, exists, suffix) == [name |-> name, exists |-> exists, suffix |-> suffix]

\* No path at all (Python None).
NoPath == PathOf("<none>", FALSE, "")

\* Path.suffix.lower()
LowerSuffix(path) == IF path.suffix = ".KML" THEN ".kml" ELSE path.suffix

\* Path.exists() of a path that may be None
Exists(path) == path # NoPath /\ path.exists

\* params.get("kml_path") or params.get("kml_file"), None when params is no
\* dictionary
AltOf(params) ==
    IF ~params.is_dict THEN NoPath
    ELSE IF params.kml_path # NoPath THEN params.kml_path ELSE params.kml_file

\* the second and third steps of the search: BASE.glob("*.kml") when the
\* path found so far is None or does not exist, FileNotFoundError when it
\* still is after that
LocateInRoot(kml_path, candidates) ==
    LET Raise(found) == IF ~Exists(found) THEN [exc |-> "FileNotFoundError", path |-> NoPath]
                        ELSE [exc |-> Absent, path |-> found]
    IN Raise(IF ~Exists(kml_path) /\ Len(candidates) > 0 THEN candidates[1] ELSE kml_path)

\* the search of the KML file: the path handed to analyzer.load, or
\* FileNotFoundError
LocateKml(fp, params, candidates) ==
    IF ~Exists(fp) \/ LowerSuffix(fp) # ".kml"
    THEN LocateInRoot(IF Exists(AltOf(params)) THEN AltOf(params) ELSE fp, candidates)
    ELSE LocateInRoot(fp, candidates)

\* KML_process_per_file(fp, params) up to analyzer.load(kml_path): the
\* value of the call is the path that is loaded
KmlProcessLocate(fp, params, candidates) ==
    LET Done(found) ==
            ret' = Call("KML_process_per_file: load",
                        [fp |-> fp, params |-> params, candidates |-> candidates],
                        found.exc, found.path)
    IN /\ Done(LocateKml(fp, params, candidates))
       /\ UNCHANGED <<cleaner, kml_file, track_points, gdf, protocol_map, artifacts>>

\* The paths the search is run with: KML files that exist, a track file
\* that exists and a KML file that does not; the KML files of the project
\* root, as glob lists them (their suffix is ".kml", glob matching the case).
SomePaths ==
    {PathOf("refs.kml", TRUE, ".kml"), PathOf("REFS.KML", TRUE, ".KML"),
     PathOf("track.gpx", TRUE, ".gpx"), PathOf("gone.kml", FALSE, ".kml")}
PathArgs == {NoPath} \cup SomePaths
ParamArgs ==
    [is_dict : BOOLEAN, kml_path : PathArgs, kml_file : PathArgs]
RootListings == {<<>>, <<PathOf("root.kml", TRUE, ".kml")>>}

InitLocate ==
    /\ kml_file = <<>>
    /\ track_points = PointsFrame(WGS84, <<>>)
    /\ Constructed

\* The search reads the file system and its arguments only: a call from the
\* state after construction stands for a call from any state.
NextLocate ==
    /\ Fresh
    /\ \E fp \in PathArgs, params \in ParamArgs, candidates \in RootListings :
          KmlProcessLocate(fp, params, candidates)

SpecLocate == InitLocate /\ [][NextLocate]_vars

\* ------------------------------------------------------------ P2 statistics

\* Series.str.lower()
LowerText(t) == [i \in 1..Len(t) |-> Lower(t[i])]

\* The point set of a union or difference of points and lines of unit
\* edges: [edges, points], the edges it is made of and its isolated points.
\* NoShape is no geometry at all (Python None).
ShapeOf(edges, points) == [edges |-> edges, points |-> points, none |-> FALSE]
NoShape == [edges |-> {}, points |-> {}, none |-> TRUE]

\* the end points of the edges of a set
OnEdges(edges) == UNION edges

\* unary_union of a list of geometries: every edge once, and the points
\* that lie on no edge
UnionAll(geoms) ==
    LET Points(edges) ==
            {g.coords[1] : g \in {geoms[i] : i \in {j \in 1..Len(geoms) :
                                                     geoms[j].type = "Point"}}} \ OnEdges(edges)
        Build(edges) == ShapeOf(edges, Points(edges))
    IN Build(UNION {Edges(geoms[i]) : i \in 1..Len(geoms)})

\* a.difference(b): the edges of a that are not edges of b, and the points
\* of a that do not lie on b
Difference(a, b) ==
    ShapeOf(a.edges \ b.edges, a.points \ (b.points \cup OnEdges(b.edges)))

\* Difference that takes nothing away (mutant).
Difference_Nothing(a, b) == ShapeOf(a.edges, a.points)

\* is_empty
ShapeIsEmpty(shape) == shape.edges = {} /\ shape.points = {}

\* Point.within(shape): the point is an isolated point of the shape or lies
\* in the interior of its lines; the boundary of lines is made of the
\* vertices where an odd number of edges end.
ShapeWithin(p, shape) ==
    \/ p \in shape.points
    \/ LET degree == Cardinality({e \in shape.edges : p \in e})
       IN degree > 0 /\ degree % 2 = 0

\* the geometries of the rows of refs a predicate selects, in row order
GeomsWhere(refs, Sel(_)) ==
    LET hits == SelectSeq(refs.rows, Sel)
    IN [i \in 1..Len(hits) |-> hits[i].geometry]

\* refs['name'].str.lower().str.contains(k, na=False)
NameHas(r, k) == r.name # Absent /\ Search(LowerText(Chars(r.name)), Chars(k), TRUE)

\* refs['kind'].str.lower() == k
KindIs(r, k) == r.kind # Absent /\ LowerText(Chars(r.kind)) = Chars(k)

\* StatRow with the percentage of the points outside (mutant).
StatRow_Outside(src, inside, total) ==
    [src |-> src, inside |-> inside, total |-> total,
     pct |-> IF total > 0 THEN [num |-> 100 * (total - inside), den |-> total]
             ELSE [num |-> 0, den |-> 1]]

\* one row of the statistics: 100.0 * inside / total is kept as the
\* fraction [num, den], 0.0 as 0 / 1
StatRow(src, inside, total) ==
    [src |-> src, inside |-> inside, total |-> total,
     pct |-> IF total > 0 THEN [num |-> 100 * inside, den |-> total]
             ELSE [num |-> 0, den |-> 1]]

\* points_all.groupby('_source_file') and the count of each group within
\* the ring: one row for each source that has points
StatsOf(points, ring) ==
    {StatRow(src,
             Cardinality({i \in 1..Len(points) :
                             points[i].src = src /\ ShapeWithin(points[i].coord, ring)}),
             Cardinality({i \in 1..Len(points) : points[i].src = src}))
        : src \in {points[i].src : i \in 1..Len(points)}}

\* The outcome of a statistics run: [status, outer, inner, ring, rows].
\* status is "ok" when the per-source rows were computed, "exit" when the
\* script stopped with SystemExit, "no data" when plot_protocol left the
\* block without rows.
StatsOutcome(status, outer, inner, ring, rows) ==
    [status |-> status, outer |-> outer, inner |-> inner, ring |-> ring, rows |-> rows]

\* compute_p2_stats: inner and outer by name; without points or without
\* outer geometry the script stops with SystemExit(0)
ComputeP2Ring(outer, inner, points) ==
    LET Report(ring) == StatsOutcome("ok", outer, inner, ring, StatsOf(points, ring))
    IN IF Len(outer) = 0 THEN StatsOutcome("exit", outer, inner, NoShape, {})
       ELSE IF Len(inner) > 0 THEN Report(Difference(UnionAll(outer), UnionAll(inner)))
       ELSE Report(UnionAll(outer))

ComputeP2Stats(refs, points) ==
    IF Len(points) = 0 THEN StatsOutcome("exit", <<>>, <<>>, NoShape, {})
    ELSE ComputeP2Ring(GeomsWhere(refs, LAMBDA r : NameHas(r, "outer")),
                       GeomsWhere(refs, LAMBDA r : NameHas(r, "inner")), points)

\* plot_protocol, the block of protocol p2: _pick_by_kind goes by the kind
\* column when refs has one and by the name otherwise, and leaves out the
\* rows without geometry; the rows are computed only for a ring that is
\* not empty
PlotP2Ring(outer, inner, points) ==
    LET Report(ring) ==
            IF ShapeIsEmpty(ring) THEN StatsOutcome("no data", outer, inner, ring, {})
            ELSE StatsOutcome("ok", outer, inner, ring, StatsOf(points, ring))
    IN IF Len(outer) = 0 THEN StatsOutcome("no data", outer, inner, NoShape, {})
       ELSE IF Len(inner) > 0 THEN Report(Difference(UnionAll(outer), UnionAll(inner)))
       ELSE Report(UnionAll(outer))

PickByKind(refs, k) ==
    IF "kind" \in refs.cols
    THEN GeomsWhere(refs, LAMBDA r : KindIs(r, k) /\ r.geometry # NoGeom)
    ELSE GeomsWhere(refs, LAMBDA r : NameHas(r, k) /\ r.geometry # NoGeom)

PlotP2Stats(refs, points) ==
    IF Empty(refs) \/ Len(points) = 0 THEN StatsOutcome("no data", <<>>, <<>>, NoShape, {})
    ELSE PlotP2Ring(PickByKind(refs, "outer"), PickByKind(refs, "inner"), points)

\* a run of the compute_p2_stats script on the references and points on disk
RunComputeP2Stats(refs, points) ==
    /\ ret' = Call("compute_p2_stats", [refs |-> refs, points |-> points], Absent,
                   ComputeP2Stats(refs, points))
    /\ UNCHANGED <<cleaner, kml_file, track_points, gdf, protocol_map, artifacts>>

\* plot_protocol('p2', ...) on the references and points on disk
RunPlotProtocol(refs, points) ==
    /\ ret' = Call("plot_protocol", [refs |-> refs, points |-> points], Absent,
                   PlotP2Stats(refs, points))
    /\ UNCHANGED <<cleaner, kml_file, track_points, gdf, protocol_map, artifacts>>

\* The reference rows of the statistics: the P2 artifacts by name, an inner
\* line that runs along the second half of the outer one, an inner line that
\* covers all of it, and a line that got the kind outer by its position.
StatRefRows ==
    {[name |-> "P2 OuterLine", kind |-> "outer",
      geometry |-> Line(<< <<0, 2>>, <<0, 3>>, <<0, 4>> >>)],
     [name |-> "P2 InnerLine", kind |-> "inner",
      geometry |-> Line(<< <<0, 3>>, <<0, 4>> >>)],
     [name |-> "P2 Inner Line", kind |-> "inner",
      geometry |-> Line(<< <<0, 2>>, <<0, 3>>, <<0, 4>> >>)],
     [name |-> "Ruta 2", kind |-> "outer",
      geometry |-> Line(<< <<1, 2>>, <<1, 3>>, <<1, 4>> >>)]}

\* a reference file with or without the kind column
StatRefs(has_kind, rs) ==
    [crs |-> WGS84,
     cols |-> IF has_kind THEN {"name", "kind", "geometry"} ELSE {"name", "geometry"},
     rows |-> [i \in 1..Len(rs) |->
                Row(i - 1, rs[i].name, Absent, IF has_kind THEN rs[i].kind ELSE Absent,
                    rs[i].geometry)]]

StatRefArgs == {StatRefs(has_kind, rs) : has_kind \in BOOLEAN, rs \in SeqUpTo(StatRefRows, MaxRefs)}

\* the points: [src, coord], of two devices
StatPointArgs ==
    SeqUpTo([src : {"dev1_points", "dev2_points"}, coord : {<<0, 3>>, <<1, 3>>, <<0, 2>>}],
            MaxStatPoints)

InitStats ==
    /\ kml_file = <<>>
    /\ track_points = PointsFrame(WGS84, <<>>)
    /\ Constructed

\* Both programs read their files and keep nothing: a run from the state
\* after construction stands for any run.
NextStats ==
    /\ Fresh
    /\ \E refs \in StatRefArgs, points \in StatPointArgs :
          RunComputeP2Stats(refs, points) \/ RunPlotProtocol(refs, points)

SpecStats == InitStats /\ [][NextStats]_vars

\* ----------------------------------------------------------------- claims

\* split_by_protocol has just returned normally
SplitDone == ret.op = "split_by_protocol" /\ ret.exc = Absent

\* the kinds of the reference taxonomy
ReferenceKinds == {"point", "outer", "inner", "start_line", "trail", "crossing"}

\* the artifact set the last run derived for a key
Derived(k) ==
    CASE k = "p1" -> artifacts.p1 [] k = "p2" -> artifacts.p2 [] k = "p3" -> artifacts.p3.frame

\* C1: after split_by_protocol with the default keys, the entry of
\* protocol_map (what get_protocol_refs returns) for p1, p2 and p3 is the
\* artifact set derived for that protocol, every row of it carrying a kind of
\* the taxonomy.
C1_MapHoldsDerivedArtifacts ==
    (SplitDone /\ ret.args = EmptyMap) =>
        \A k \in {"p1", "p2", "p3"} :
            LET refs == GetProtocolRefs(k).value
            IN /\ refs.rows = Derived(k).rows
               /\ \A i \in 1..Len(refs.rows) : refs.rows[i].kind \in ReferenceKinds

\* the rows of self.gdf whose name or Description holds the digit of key k
DigitRows(k) ==
    SelectSeq(gdf.rows, LAMBDA r :
        \/ Search(AsStr(r.name), <<LastChar(k)>>, TRUE)
        \/ "Description" \in gdf.cols /\ Search(AsStr(r.desc), <<LastChar(k)>>, TRUE))

\* the primary patterns of key k under the mapping the call was given
PrimaryPatterns(protocols, k) ==
    IF k \in DOMAIN protocols THEN <<Chars(protocols[k])>> ELSE DefaultPatterns(LastChar(k))

\* no row of self.gdf matches a primary pattern of key k
PrimaryMatchesNone(protocols, k) ==
    \A i \in 1..Len(gdf.rows) : ~MatchPatterns(gdf, PrimaryPatterns(protocols, k))[i]

\* C2: for every key of the call, explicit or default patterns alike, when
\* the primary patterns match no geometry the subset of the key is exactly
\* the geometries whose name or Description holds the protocol digit.
C2_LooseFallbackApplied ==
    SplitDone =>
        \A i \in 1..Len(ProtoKeys(ret.args)) :
            LET k == ProtoKeys(ret.args)[i]
            IN PrimaryMatchesNone(ret.args, k) => protocol_map[k].rows = DigitRows(k)

\* the named collection holds a geometry whose name holds "P3 Trail" or "Trail"
TrailNamed ==
    \E i \in 1..Len(gdf.rows) :
        \/ Search(AsStr(gdf.rows[i].name), Chars("P3 Trail"), FALSE)
        \/ Search(AsStr(gdf.rows[i].name), Chars("Trail"), FALSE)

\* the rows of kind k of a frame
OfKind(df, k) == SelectSeq(df.rows, LAMBDA r : r.kind = k)

\* C7: whenever the named collection holds a geometry named "P3 Trail" or
\* "Trail", the P3 derivation emits a Trail artifact, whatever the P2 entry
\* of protocol_map holds and whether or not a crossing was obtained.
C7_TrailAlwaysEmitted ==
    (SplitDone /\ TrailNamed) => Len(OfKind(artifacts.p3.frame, "trail")) = 1

\* C8: if the P2 derivation of the run resolved a StartLine artifact and a
\* trail was found, the P3 crossing is computed against exactly the geometry
\* of that artifact.
C8_CrossingUsesP2StartLine ==
    (SplitDone /\ TrailNamed /\ Len(OfKind(artifacts.p2, "start_line")) > 0) =>
        /\ artifacts.p3.start_line = OfKind(artifacts.p2, "start_line")[1].geometry
        /\ artifacts.p3.cross_geom =
              Intersection(artifacts.p3.trail, OfKind(artifacts.p2, "start_line")[1].geometry)

\* the trail and the start line the named collection offers to P3
TrailOffered == PyOr(GetFirstNamedGeom(gdf, "P3 Trail"), GetFirstNamedGeom(gdf, "Trail"))
StartOffered ==
    IF Len(OfKind(artifacts.p2, "start_line")) > 0
    THEN OfKind(artifacts.p2, "start_line")[1].geometry
    ELSE PyOr(GetFirstNamedGeom(gdf, "P2 Start"), GetFirstNamedGeom(gdf, "Start Line"))

\* the first Point among the components of a geometry with components
FirstPoint(g) ==
    LET at == {i \in 1..Len(g.geoms) : g.geoms[i].type = "Point"}
    IN IF at = {} THEN NoGeom ELSE g.geoms[Min(at)]

\* C9: the Crossing artifact exists iff Trail and StartLine are both present
\* and their intersection is not empty; it is the intersection when that is
\* a single point, the first point of its components when it has several,
\* and never a centroid.
C9_CrossingIsFirstPoint ==
    SplitDone =>
        LET both == TrailOffered # NoGeom /\ StartOffered # NoGeom
            x == Intersection(TrailOffered, StartOffered)
            crossing == OfKind(artifacts.p3.frame, "crossing")
        IN /\ Len(crossing) = (IF both /\ ~IsEmpty(x) THEN 1 ELSE 0)
           /\ (both /\ x.type = "Point") => crossing[1].geometry = x
           /\ (both /\ Len(x.geoms) > 1) => crossing[1].geometry = FirstPoint(x)
           /\ artifacts.p3.via # "centroid"

\* the positions of the rows of self.gdf whose name holds sub, case ignored
Named(sub) == {i \in 1..Len(gdf.rows) : Search(AsStr(gdf.rows[i].name), Chars(sub), FALSE)}

\* C10: the P1 artifact set the deriver computes holds exactly one artifact,
\* of kind point, when a name of the full collection holds "P1" (case
\* ignored): with the geometry of the first row named "P1 Point" if there is
\* one, else of the first named "P1"; it is empty when there is none.
C10_P1Artifact ==
    SplitDone =>
        IF Named("P1") = {} THEN artifacts.p1.rows = <<>>
        ELSE /\ Len(artifacts.p1.rows) = 1
             /\ artifacts.p1.rows[1].kind = "point"
             /\ artifacts.p1.rows[1].geometry =
                   gdf.rows[IF Named("P1 Point") # {} THEN Min(Named("P1 Point"))
                            ELSE Min(Named("P1"))].geometry

\* C10 witness: a row named "P1" comes before the first row named
\* "P1 Point", and the artifact holds the latter's geometry.
C10_Witness ==
    /\ SplitDone
    /\ Named("P1 Point") # {}
    /\ Min(Named("P1")) < Min(Named("P1 Point"))
    /\ gdf.rows[Min(Named("P1"))].geometry # gdf.rows[Min(Named("P1 Point"))].geometry
    /\ Len(artifacts.p1.rows) = 1
    /\ artifacts.p1.rows[1].geometry = gdf.rows[Min(Named("P1 Point"))].geometry

\* attach_refs_to_gdf has just returned a join of the given mode
Joined(how) ==
    ret.op = "attach_refs_to_gdf" /\ ret.exc = Absent /\ ret.args.how = how

\* the references and the points of the last attach_refs_to_gdf
JoinRefs == protocol_map[ret.args.protocol_key]
JoinPoints == ret.args.gdf_points

\* the rows of the join result for the point at position i
RowsOf(i) == SelectSeq(ret.value, LAMBDA r : r.left = i)

\* the positions of the references at the least distance from point i, by
\* comparison with every reference
Nearest(i) ==
    LET p == JoinPoints.rows[i].geometry.coords[1]
    IN {j \in 1..Len(JoinRefs.rows) :
          \A k \in 1..Len(JoinRefs.rows) :
              GeomDist2(p, JoinRefs.rows[j].geometry) <= GeomDist2(p, JoinRefs.rows[k].geometry)}

\* the positions of the references point i is within
Containers(i) ==
    {j \in 1..Len(JoinRefs.rows) :
        PointWithin(JoinPoints.rows[i].geometry.coords[1], JoinRefs.rows[j].geometry)}

\* the rows of the join result for point i match exactly the references at
\* the positions J, one row each; a single row without match when J is empty
MatchesExactly(i, J) ==
    IF J = {} THEN Len(RowsOf(i)) = 1 /\ RowsOf(i)[1].index_right = <<>>
    ELSE /\ Len(RowsOf(i)) = Cardinality(J)
         /\ {r.index_right : r \in {RowsOf(i)[k] : k \in 1..Len(RowsOf(i))}}
               = {<<JoinRefs.rows[j].idx>> : j \in J}

\* the rows of the join result for point i are one row, matching the first
\* of the references at the positions J, or nothing when J is empty
MatchesFirst(i, J) ==
    /\ Len(RowsOf(i)) = 1
    /\ RowsOf(i)[1].index_right = (IF J = {} THEN <<>> ELSE <<JoinRefs.rows[Min(J)].idx>>)

\* C3: attach_refs_to_gdf called with points and references of different
\* CRS raises, whatever the mode, returns no join and leaves self.gdf and
\* protocol_map as they were.
C3_CrsMismatchRaises ==
    [][(/\ ret'.op = "attach_refs_to_gdf"
        /\ ret'.args.protocol_key \in DOMAIN protocol_map
        /\ ret'.args.gdf_points.crs # protocol_map[ret'.args.protocol_key].crs)
       => (/\ ret'.exc = "ValueError: CRS mismatch"
           /\ ret'.value = NoValue
           /\ gdf' = gdf
           /\ protocol_map' = protocol_map)]_vars

\* C3 witness: a within join of points in UTM against references in
\* EPSG:4326 has raised.
C3_Witness ==
    /\ ret.op = "attach_refs_to_gdf"
    /\ ret.exc = "ValueError: CRS mismatch"
    /\ ret.args.how = "within"
    /\ Len(JoinPoints.rows) > 0
    /\ Len(JoinRefs.rows) > 0
    /\ JoinPoints.crs = UTM30N
    /\ JoinRefs.crs = WGS84

\* C4 as claimed: a nearest join yields exactly one result per point, the
\* match being the first, in input order, of the references at the least
\* distance.
C4_NearestOneRowFirstTie ==
    Joined("nearest") => \A i \in 1..Len(JoinPoints.rows) : MatchesFirst(i, Nearest(i))

\* C4 as amended: a nearest join yields, for every point, one result per
\* reference at the least distance from it (a single result without match
\* when there is no reference), and no other result.
C4_NearestAllTies ==
    Joined("nearest") =>
        /\ \A i \in 1..Len(JoinPoints.rows) : MatchesExactly(i, Nearest(i))
        /\ \A k \in 1..Len(ret.value) : ret.value[k].left \in 1..Len(JoinPoints.rows)

\* C4 witness: a point with two references at the same least distance has
\* two results.
C4_Witness ==
    /\ Joined("nearest")
    /\ \E i \in 1..Len(JoinPoints.rows) : Cardinality(Nearest(i)) = 2 /\ Len(RowsOf(i)) = 2

\* C5: in a nearest join with a non-empty reference set, the distance
\* recorded for a point is the least of its distances to all the references.
C5_NearestDistanceIsMinimum ==
    (Joined("nearest") /\ Len(JoinRefs.rows) > 0) =>
        \A i \in 1..Len(JoinPoints.rows) :
            /\ Len(RowsOf(i)) > 0
            /\ \A k \in 1..Len(RowsOf(i)) :
                  RowsOf(i)[k].dist2 =
                      <<Min({GeomDist2(JoinPoints.rows[i].geometry.coords[1],
                                       JoinRefs.rows[j].geometry) : j \in 1..Len(JoinRefs.rows)})>>

\* C5 witness: a point whose first reference is farther than its second has
\* the distance to the second recorded, which is not zero.
C5_Witness ==
    /\ Joined("nearest")
    /\ Len(JoinRefs.rows) = 2
    /\ \E i \in 1..Len(JoinPoints.rows) :
          LET p == JoinPoints.rows[i].geometry.coords[1]
          IN /\ GeomDist2(p, JoinRefs.rows[2].geometry) < GeomDist2(p, JoinRefs.rows[1].geometry)
             /\ RowsOf(i)[1].dist2 = <<GeomDist2(p, JoinRefs.rows[2].geometry)>>
             /\ GeomDist2(p, JoinRefs.rows[2].geometry) > 0

\* C6 as claimed: a within join yields exactly one result per point, without
\* match for a point within no reference, and matching the first, in input
\* order, of the references the point is within.
C6_WithinOneRowFirstContainer ==
    Joined("within") => \A i \in 1..Len(JoinPoints.rows) : MatchesFirst(i, Containers(i))

\* C6 as amended: a within join yields, for every point, one result per
\* reference the point is within, and a single result without match when it
\* is within none.
C6_WithinAllContainers ==
    Joined("within") =>
        /\ \A i \in 1..Len(JoinPoints.rows) : MatchesExactly(i, Containers(i))
        /\ \A k \in 1..Len(ret.value) : ret.value[k].left \in 1..Len(JoinPoints.rows)

\* C6 witness: of two points, one is within two references and has two
\* results, the other is within none and has one result without match.
C6_Witness ==
    /\ Joined("within")
    /\ \E i, j \in 1..Len(JoinPoints.rows) :
          /\ Cardinality(Containers(i)) = 2 /\ Len(RowsOf(i)) = 2
          /\ Containers(j) = {} /\ RowsOf(j) = <<JoinRow(j, <<>>, <<>>)>>

\* the geometry a role of protocol 2 gets by name: that of the first row
\* whose name holds a, else of the first whose name holds b, else none
RoleGeom(a, b) ==
    IF Named(a) # {} THEN gdf.rows[Min(Named(a))].geometry
    ELSE IF Named(b) # {} THEN gdf.rows[Min(Named(b))].geometry
    ELSE NoGeom

\* the three roles of protocol 2 with the geometry each gets by name
P2Roles ==
    << <<"outer", RoleGeom("P2 Outer", "OuterLine")>>,
       <<"inner", RoleGeom("P2 Inner", "Inner Line")>>,
       <<"start_line", RoleGeom("P2 Start", "Start Line")>> >>

\* the line-type rows of the subset matched for p2 (the entry the map holds
\* when p2 was among the keys asked for), in their order
P2SubsetLines ==
    IF ret.args = EmptyMap \/ "p2" \in DOMAIN ret.args
    THEN SelectSeq(protocol_map["p2"].rows,
                   LAMBDA r : r.geometry.type \in {"LineString", "MultiLineString"})
    ELSE <<>>

\* the artifacts of protocol 2 as pairs of kind and geometry
P2KindsAndGeoms ==
    [i \in 1..Len(artifacts.p2.rows) |->
        <<artifacts.p2.rows[i].kind, artifacts.p2.rows[i].geometry>>]

\* C11: the P2 derivation uses the positional fallback iff no role was found
\* by name: it then emits the line-type geometries of the subset matched for
\* p2 in their order, the first as outer, the second as inner, the third as
\* start_line and the later ones with a kind outside the taxonomy; when a
\* role was found by name, the roles found are all it emits.
C11_PositionalFallback ==
    SplitDone =>
        IF \A i \in 1..3 : P2Roles[i][2] = NoGeom
        THEN /\ Len(artifacts.p2.rows) = Len(P2SubsetLines)
             /\ \A i \in 1..Len(P2SubsetLines) :
                   /\ artifacts.p2.rows[i].geometry = P2SubsetLines[i].geometry
                   /\ IF i <= 3 THEN artifacts.p2.rows[i].kind = P2Roles[i][1]
                      ELSE artifacts.p2.rows[i].kind \notin ReferenceKinds
        ELSE P2KindsAndGeoms = SelectSeq(P2Roles, LAMBDA x : x[2] # NoGeom)

\* C11 witness: four lines, none with a role name, were given the kinds
\* outer, inner, start_line and a generic one.
C11_Witness ==
    /\ SplitDone
    /\ \A i \in 1..3 : P2Roles[i][2] = NoGeom
    /\ Len(P2SubsetLines) = 4
    /\ Len(artifacts.p2.rows) = 4
    /\ [i \in 1..4 |-> artifacts.p2.rows[i].kind] = <<"outer", "inner", "start_line", "line_3">>

\* a pattern of pats occurs, case ignored, in the text of field v; an
\* absent field holds no text
OccursIn(v, pats) ==
    v # Absent /\ \E j \in 1..Len(pats) : Search(Chars(v), pats[j], FALSE)

\* a pattern of pats occurs in the name of row r or in its Description
PatternOccurs(r, pats) ==
    OccursIn(r.name, pats) \/ ("Description" \in gdf.cols /\ OccursIn(r.desc, pats))

\* C12: for a key of the call some geometry of which holds a pattern, the
\* subset matched is exactly the geometries in whose name or Description a
\* pattern of the key occurs, case ignored; and a geometry without name is in
\* the subset of a key only by its Description (a pattern, or the digit of
\* the looser match, occurring in it).
C12_MatchedIffPatternOccurs ==
    SplitDone =>
        \A i \in 1..Len(ProtoKeys(ret.args)) :
            LET k == ProtoKeys(ret.args)[i]
                pats == PrimaryPatterns(ret.args, k)
                expected == SelectSeq(gdf.rows, LAMBDA r : PatternOccurs(r, pats))
            IN /\ expected # <<>> => protocol_map[k].rows = expected
               /\ \A j \in 1..Len(protocol_map[k].rows) :
                     protocol_map[k].rows[j].name = Absent =>
                        /\ "Description" \in gdf.cols
                        /\ OccursIn(protocol_map[k].rows[j].desc, pats \o <<<<LastChar(k)>>>>)

\* C13: in the subset matched for a key every geometry of the collection
\* appears at most once and in the order of the collection, and of two
\* geometries of equal content either both appear or neither.
C13_SubsetWithoutDuplicates ==
    SplitDone =>
        \A i \in 1..Len(ProtoKeys(ret.args)) :
            LET sub == protocol_map[ProtoKeys(ret.args)[i]].rows
                Same(a, b) == /\ a.name = b.name /\ a.desc = b.desc /\ a.geometry = b.geometry
            IN /\ \A j \in 1..Len(sub) : sub[j] = gdf.rows[sub[j].idx + 1]
               /\ \A j \in 1..(Len(sub) - 1) : sub[j].idx < sub[j + 1].idx
               /\ \A a, b \in 1..Len(gdf.rows) :
                     Same(gdf.rows[a], gdf.rows[b]) =>
                        ((\E j \in 1..Len(sub) : sub[j].idx = a - 1)
                            <=> (\E j \in 1..Len(sub) : sub[j].idx = b - 1))

\* C13 witness: two geometries of equal content, matched by several patterns
\* in the name and in the Description, are both in the subset of p1, after a
\* geometry that is not.
C13_Witness ==
    /\ SplitDone
    /\ ret.args = EmptyMap
    /\ Len(gdf.rows) = 3
    /\ gdf.rows[1].name = Absent
    /\ gdf.rows[2].name = "P1 Point" /\ gdf.rows[2].desc = "Zona Protocolo 1"
    /\ gdf.rows[3].name = gdf.rows[2].name /\ gdf.rows[3].geometry = gdf.rows[2].geometry
    /\ protocol_map["p1"].rows = <<gdf.rows[2], gdf.rows[3]>>

\* C14: split_by_protocol on a loaded collection, be it empty or without
\* any match, returns without raising, and protocol_map then holds an entry
\* for every key asked for, an empty one where neither a pattern nor the
\* digit of the key occurs in a name or Description.
C14_SplitNeverRaises ==
    (ret.op = "split_by_protocol" /\ gdf # NoFrame) =>
        /\ ret.exc = Absent
        /\ \A i \in 1..Len(ProtoKeys(ret.args)) :
              LET k == ProtoKeys(ret.args)[i]
              IN /\ k \in DOMAIN protocol_map
                 /\ (PrimaryMatchesNone(ret.args, k) /\ DigitRows(k) = <<>>)
                       => protocol_map[k].rows = <<>>

\* C14 witness: a collection that is not empty and holds no match for any
\* of the three keys was split, the three entries being empty.
C14_Witness ==
    /\ SplitDone
    /\ ret.args = EmptyMap
    /\ Len(gdf.rows) > 0
    /\ \A k \in {"p1", "p2", "p3"} :
          /\ PrimaryMatchesNone(ret.args, k) /\ DigitRows(k) = <<>>
          /\ k \in DOMAIN protocol_map /\ protocol_map[k].rows = <<>>

\* C15: when the intersection of the trail and the start line fails as an
\* operation, split_by_protocol reports an error to its caller, so that the
\* failure can be told from a trail that does not cross the start line.
C15_IntersectionFailureReported ==
    (ret.op = "split_by_protocol" /\ artifacts.built /\ artifacts.p3.via = "failed")
        => ret.exc # Absent

\* one of the two lonlat_to_utm_epsg has just returned
Resolved ==
    ret.op \in {"KMLProtocolAnalyzer.lonlat_to_utm_epsg",
                "GPXCleanerFormatter.lonlat_to_utm_epsg"}

\* the UTM zones of a longitude given in half degrees: the z of 1..60 such
\* that lon + 180 lies in [6 (z - 1), 6 z) up to a multiple of 360
ZonesOf(lon2) ==
    {z \in 1..60 : \E q \in -1..1 :
        /\ 12 * (z - 1 + 60 * q) <= lon2 + 360
        /\ lon2 + 360 < 12 * (z + 60 * q)}

\* C16: both lonlat_to_utm_epsg return 32600 + zone for a latitude >= 0 and
\* 32700 + zone below, zone being floor((lon + 180) / 6) mod 60 + 1, which is
\* in 1..60; longitude 180 is in zone 1, latitude 0 is northern, and (-3, 40),
\* (-3, -40), (177, 10) give 32630, 32730, 32660.
C16_UtmEpsg ==
    Resolved =>
        LET lon2 == ret.args.lon2
            lat2 == ret.args.lat2
        IN /\ \E z \in ZonesOf(lon2) :
                 ret.value = (IF lat2 >= 0 THEN 32600 ELSE 32700) + z
           /\ Cardinality(ZonesOf(lon2)) = 1
           /\ lon2 = 360 => ret.value \in {32601, 32701}
           /\ lat2 = 0 => ret.value < 32700
           /\ (lon2 = -6 /\ lat2 = 80) => ret.value = 32630
           /\ (lon2 = -6 /\ lat2 = -80) => ret.value = 32730
           /\ (lon2 = 354 /\ lat2 = 20) => ret.value = 32660

\* C16 witness: KMLProtocolAnalyzer.lonlat_to_utm_epsg(180, 0) returned 32601.
C16_Witness ==
    /\ ret.op = "KMLProtocolAnalyzer.lonlat_to_utm_epsg"
    /\ ret.args = [lon2 |-> 360, lat2 |-> 0]
    /\ ret.value = 32601

\* a CRS whose unit is the metre: the UTM zones, not the degrees of EPSG:4326
MetricCrs(crs) == crs # WGS84

\* C18: a nearest join is returned only when points and references share
\* a metric projection: attach_refs_to_gdf with how = "nearest" returns no
\* join when both layers carry EPSG:4326.
C18_NearestNeedsMetricCrs ==
    Joined("nearest") => MetricCrs(JoinPoints.crs) /\ MetricCrs(JoinRefs.crs)

\* C20: with a known protocol key and the same CRS on both layers,
\* attach_refs_to_gdf raises for every mode other than "nearest" and
\* "within", returns no join and leaves the analyzer as it was.
C20_UnknownModeRaises ==
    [][(/\ ret'.op = "attach_refs_to_gdf"
        /\ ret'.args.protocol_key \in DOMAIN protocol_map
        /\ ret'.args.gdf_points.crs = protocol_map[ret'.args.protocol_key].crs
        /\ ret'.args.how \notin {"nearest", "within"})
       => (/\ ret'.exc = "ValueError: Unknown how"
           /\ ret'.value = NoValue
           /\ gdf' = gdf
           /\ protocol_map' = protocol_map)]_vars

\* C20 witness: a join of mode "Nearest" of points and references, both in
\* EPSG:4326 and neither empty, has raised.
C20_Witness ==
    /\ ret.op = "attach_refs_to_gdf"
    /\ ret.exc = "ValueError: Unknown how"
    /\ ret.args.how = "Nearest"
    /\ Len(JoinPoints.rows) > 0
    /\ Len(JoinRefs.rows) > 0
    /\ JoinPoints.crs = JoinRefs.crs

\* C17: resolving the EPSG of a collection fails iff the collection holds
\* no coordinate, and then no EPSG is returned and no projected layer is
\* stored: to_utm on a loaded layer raises iff the layer is empty, leaving
\* gdf_utm as it was, and project_refs_to_utm_for_points (with no key or a
\* known one) raises iff the points are empty, leaving self.gdf and
\* protocol_map as they were.
C17_EmptyInputFails ==
    [][/\ (ret'.op = "to_utm" /\ cleaner.gdf # NoFrame)
          => /\ (ret'.exc # Absent) <=> Empty(cleaner.gdf)
             /\ Empty(cleaner.gdf)
                  => ret'.value = NoValue /\ cleaner'.gdf_utm = cleaner.gdf_utm
       /\ (/\ ret'.op = "project_refs_to_utm_for_points"
           /\ ret'.args.protocol_key \in {Absent} \cup DOMAIN protocol_map)
          => /\ (ret'.exc # Absent) <=> Empty(ret'.args.gdf_points)
             /\ Empty(ret'.args.gdf_points)
                  => /\ ret'.value = NoValue
                     /\ gdf' = gdf
                     /\ protocol_map' = protocol_map]_vars

\* KML_process_per_file has just run with track points in params
ProcessedWithPoints == ret.op = "KML_process_per_file" /\ ret.args.gdf_points # <<>>

\* C19: a failure to project the references to the UTM zone of the points
\* is reported: KML_process_per_file called with points that cannot be
\* resolved raises, and it never returns an analyzer whose references are
\* in EPSG:4326 while the points are in UTM.
C19_ProjectionFailureReported ==
    ProcessedWithPoints =>
        /\ Empty(ret.args.gdf_points[1]) => ret.exc # Absent
        /\ (ret.exc = Absent /\ ret.args.gdf_points[1].crs # WGS84) => gdf.crs # WGS84

\* C23: split_by_protocol reads self.gdf and does not change it, and a
\* second call right after a first one with the same arguments leaves
\* protocol_map and the derived artifacts as the first call left them.
C23_SplitReadsOnly ==
    [][ret'.op = "split_by_protocol"
       => /\ gdf' = gdf
          /\ (/\ ret.op = "split_by_protocol"
              /\ ret.exc = Absent
              /\ ret'.args = ret.args)
             => (ret'.exc = Absent /\ protocol_map' = protocol_map /\ artifacts' = artifacts)]_vars

\* C23 witness: split_by_protocol has returned on a layer of three
\* placemarks, some of them matched and some not.
C23_Witness ==
    /\ ret.op = "split_by_protocol"
    /\ ret.exc = Absent
    /\ Len(gdf.rows) = 3
    /\ gdf = ReadFile(kml_file)
    /\ \E k \in DOMAIN protocol_map :
          Len(protocol_map[k].rows) > 0 /\ Len(protocol_map[k].rows) < Len(gdf.rows)

\* the CRS self.gdf and the entries of protocol_map are tagged with
RefCrs == (IF gdf = NoFrame THEN {} ELSE {gdf.crs})
              \cup {protocol_map[k].crs : k \in DOMAIN protocol_map}

\* C24: after any sequence of load, split_by_protocol, project_refs_to_epsg
\* and project_refs_to_utm_for_points, with or without a protocol key,
\* self.gdf and every entry of protocol_map carry one and the same CRS.
C24_OneCrs == Cardinality(RefCrs) <= 1

\* the methods of the analyzer that project or join
RefOps == {"project_refs_to_epsg", "project_refs_to_utm_for_points", "attach_refs_to_gdf"}

\* C29: a call of project_refs_to_epsg, project_refs_to_utm_for_points or
\* attach_refs_to_gdf that raises leaves self.gdf and every entry of
\* protocol_map as they were; attach_refs_to_gdf reports an unknown key
\* before a CRS mismatch and a CRS mismatch before an unknown mode.
C29_FailedCallChangesNothing ==
    [][/\ (ret'.op \in RefOps /\ ret'.exc # Absent)
          => gdf' = gdf /\ protocol_map' = protocol_map
       /\ ret'.op = "attach_refs_to_gdf"
          => /\ ret'.args.protocol_key \notin DOMAIN protocol_map
                  => ret'.exc = "KeyError"
             /\ (/\ ret'.args.protocol_key \in DOMAIN protocol_map
                 /\ ret'.args.gdf_points.crs # protocol_map[ret'.args.protocol_key].crs)
                  => ret'.exc = "ValueError: CRS mismatch"]_vars

\* C29 witness: project_refs_to_epsg has raised KeyError on an analyzer
\* whose layers were projected to a UTM zone before.
C29_Witness ==
    /\ ret.op = "project_refs_to_epsg"
    /\ ret.exc = "KeyError"
    /\ gdf # NoFrame
    /\ gdf.crs # WGS84
    /\ protocol_map # EmptyMap

\* an existing file with the suffix .kml, in any case of the letters
IsKmlFile(path) == Exists(path) /\ LowerSuffix(path) = ".kml"

\* the file C28 names for a call: fp if it is an existing .kml file, else
\* the path of params if it exists, else the first *.kml of the project
\* root, else none
ClaimedKml(fp, params, candidates) ==
    IF IsKmlFile(fp) THEN fp
    ELSE IF Exists(AltOf(params)) THEN AltOf(params)
    ELSE IF Len(candidates) > 0 THEN candidates[1]
    ELSE NoPath

\* C28: KML_process_per_file loads the file chosen in the order fp, path of
\* params, first *.kml of the project root; what it loads is an existing
\* file with the suffix .kml, and it raises FileNotFoundError, without
\* loading, when there is none.
C28_LoadsOnlyKml ==
    ret.op = "KML_process_per_file: load" =>
        /\ ret.value = ClaimedKml(ret.args.fp, ret.args.params, ret.args.candidates)
        /\ (ret.exc = "FileNotFoundError") <=> (ret.value = NoPath)
        /\ ret.exc = Absent => IsKmlFile(ret.value)

\* C25: whenever gdf_utm is set it is the projection of the rows now in
\* gdf: the same rows, in the same order, in the CRS of gdf_utm.
C25_UtmFollowsGdf ==
    cleaner.gdf_utm # NoFrame
        => cleaner.gdf # NoFrame /\ cleaner.gdf_utm = ToCrs(cleaner.gdf, cleaner.gdf_utm.crs)

\* a time within the range of a filter_time_range call, both ends included
Within(t, args) == t # NaT /\ args.start <= t /\ t <= args.end

\* a row without its index
Content(r) == [time |-> r.time, source_file |-> r.source_file, geometry |-> r.geometry]
Contents(rows) == [i \in 1..Len(rows) |-> Content(rows[i])]

\* C26: filter_time_range(start, end, inplace=True) without source_files
\* leaves in gdf the rows it held whose time lies in [start, end], rows
\* without a time left out, in their order; the same call once more changes
\* nothing.
C26_FilterKeepsRange ==
    [][(/\ ret'.op = "filter_time_range"
        /\ ret'.args.inplace
        /\ ret'.args.source_files = <<>>
        /\ cleaner.gdf # NoFrame)
       => /\ cleaner'.gdf.rows
               = SelectSeq(cleaner.gdf.rows, LAMBDA r : Within(r.time, ret'.args))
          /\ cleaner'.gdf.crs = cleaner.gdf.crs
          /\ (ret.op = "filter_time_range" /\ ret.args = ret'.args) => cleaner' = cleaner]_vars

\* C26 witness: of the four points of two files the filter of the range
\* [2, 2] has left the second and the third, with their index.
C26_Witness ==
    /\ ret.op = "filter_time_range"
    /\ ret.exc = Absent
    /\ ret.args = [start |-> 2, end |-> 2, inplace |-> TRUE, source_files |-> <<>>]
    /\ Len(cleaner.gdf.rows) = 2
    /\ cleaner.gdf.rows[1].idx = 1 /\ cleaner.gdf.rows[1].source_file = "a.gpx"
    /\ cleaner.gdf.rows[2].idx = 2 /\ cleaner.gdf.rows[2].source_file = "b.gpx"

\* the rows of s of the files named, or of the other files
OfSources(rows, sources, named) ==
    SelectSeq(rows, LAMBDA r : (r.source_file \in sources) <=> named)

\* C27: filter_time_range with source_files and inplace=True keeps every
\* row of the files not named, whatever its time, and of the files named
\* the rows within the range; with inplace=False gdf and df stay as they
\* were.
C27_FilterOtherFilesKept ==
    [][(/\ ret'.op = "filter_time_range"
        /\ ret'.args.source_files # <<>>
        /\ ret'.exc = Absent)
       => IF ret'.args.inplace
          THEN /\ Contents(OfSources(cleaner'.gdf.rows, ret'.args.source_files[1], FALSE))
                    = Contents(OfSources(cleaner.gdf.rows, ret'.args.source_files[1], FALSE))
               /\ Contents(OfSources(cleaner'.gdf.rows, ret'.args.source_files[1], TRUE))
                    = Contents(SelectSeq(
                          OfSources(cleaner.gdf.rows, ret'.args.source_files[1], TRUE),
                          LAMBDA r : Within(r.time, ret'.args)))
          ELSE cleaner'.gdf = cleaner.gdf /\ cleaner'.df = cleaner.df]_vars

\* C27 witness: the filter of the range [1, 1] on a.gpx alone has left the
\* two points of b.gpx, one at time 2 and one without time, and one of a.gpx.
C27_Witness ==
    /\ ret.op = "filter_time_range"
    /\ ret.exc = Absent
    /\ ret.args = [start |-> 1, end |-> 1, inplace |-> TRUE, source_files |-> <<{"a.gpx"}>>]
    /\ Len(cleaner.gdf.rows) = 3
    /\ cleaner.gdf.rows[1].source_file = "b.gpx" /\ cleaner.gdf.rows[1].time = 2
    /\ cleaner.gdf.rows[2].source_file = "b.gpx" /\ cleaner.gdf.rows[2].time = NaT
    /\ cleaner.gdf.rows[3].source_file = "a.gpx" /\ cleaner.gdf.rows[3].time = 1

\* the two programs that compute the P2 statistics
StatOps == {"compute_p2_stats", "plot_protocol"}

\* the edges of all the geometries of a list
EdgesOfAll(geoms) == UNION {Edges(geoms[i]) : i \in 1..Len(geoms)}

\* With outer geometry selected, the ring is made of the edges of the outer
\* geometries that are not edges of the inner ones.
RingOfSelected ==
    (ret.op \in StatOps /\ Len(ret.args.points) > 0 /\ Len(ret.value.outer) > 0)
    => /\ ~ret.value.ring.none
       /\ ret.value.ring.edges = EdgesOfAll(ret.value.outer) \ EdgesOfAll(ret.value.inner)
       /\ ret.value.ring.points = {}

\* C21: whenever one of the two programs has run on some points, the ring is
\* made of the edges of the outer geometries it selected that are not edges
\* of the inner ones (all the outer edges when it selected no inner
\* geometry), and when it selected no outer geometry it has a result over an
\* empty ring, which counts every point outside it.
C21_RingIsOuterMinusInner ==
    /\ RingOfSelected
    /\ (ret.op \in StatOps /\ Len(ret.args.points) > 0 /\ Len(ret.value.outer) = 0)
       => /\ ret.value.status = "ok"
          /\ ~ret.value.ring.none
          /\ ShapeIsEmpty(ret.value.ring)
          /\ ret.value.rows = StatsOf(ret.args.points, ShapeOf({}, {}))

\* the sum of the totals of a set of rows
RECURSIVE SumTotals(_)
SumTotals(rows) ==
    IF rows = {} THEN 0
    ELSE LET r == CHOOSE r \in rows : TRUE IN r.total + SumTotals(rows \ {r})

\* the points of one source
OfSource(points, src) == {i \in 1..Len(points) : points[i].src = src}

\* C22: whenever one of the two programs has computed the inside ratio, it
\* has one row for each source of the points; in each row total is the
\* number of points of the source, 0 <= inside <= total, inside is the
\* number of its points within the ring, and the percentage is
\* 100 * inside / total; the totals sum to the number of points; a row of
\* total 0 has the percentage 0.0.
C22_InsideRatio ==
    /\ StatRow("points", 0, 0).pct.num = 0 /\ StatRow("points", 0, 0).pct.den = 1
    /\ (ret.op \in StatOps /\ ret.value.status = "ok")
       => /\ \A i \in 1..Len(ret.args.points) :
                Cardinality({r \in ret.value.rows : r.src = ret.args.points[i].src}) = 1
          /\ \A r \in ret.value.rows :
                /\ r.total = Cardinality(OfSource(ret.args.points, r.src))
                /\ 0 <= r.inside /\ r.inside <= r.total
                /\ r.inside = Cardinality({i \in OfSource(ret.args.points, r.src) :
                                  ShapeWithin(ret.args.points[i].coord, ret.value.ring)})
                /\ r.total > 0
                /\ r.pct.den > 0
                /\ r.pct.num * r.total = 100 * r.inside * r.pct.den
          /\ SumTotals(ret.value.rows) = Len(ret.args.points)

\* C22 witness: compute_p2_stats has counted one of the two points of dev1
\* within the outer line, 50 percent.
C22_Witness ==
    /\ ret.op = "compute_p2_stats"
    /\ ret.value.status = "ok"
    /\ Len(ret.args.points) = 2
    /\ ret.value.rows = {[src |-> "dev1_points", inside |-> 1, total |-> 2,
                          pct |-> [num |-> 100, den |-> 2]]}

\* what the other program makes of the same references and points
OtherStats ==
    IF ret.op = "compute_p2_stats" THEN PlotP2Stats(ret.args.refs, ret.args.points)
    ELSE ComputeP2Stats(ret.args.refs, ret.args.points)

\* C30: whenever one of the two programs has run on some references and
\* points, the other one selects the same outer and the same inner
\* geometries from them and reports the same rows (source, inside, total,
\* percentage).
C30_SameStatistics ==
    (ret.op \in StatOps /\ Len(ret.args.points) > 0)
    => /\ ret.value.outer = OtherStats.outer
       /\ ret.value.inner = OtherStats.inner
       /\ ret.value.rows = OtherStats.rows

====
